---- MODULE Spec2Model ----
(***************************************************************************)
(* ami-helper: the tag-tuple completion search (find_hashtag_tuples), the  *)
(* catalogue adapter (find_missing_tag) and the memoizing query layer      *)
(* (get_cache, set_cache, execute_ami_command) of src/src/ami_helper.      *)
(*                                                                         *)
(* Python values are modelled as follows.  A string is a TLA+ string; the  *)
(* value None is the string None below, which is no tag.  A scope such as  *)
(* "mc16_13TeV" is the pair <<"mc16", "13TeV">> of the pieces around its   *)
(* first underscore.  A hashtag scope "PMGL<n>" is the pair <<"PMGL", n>>. *)
(* hash_tags is a function on the Python indices 0..3.  A command text is  *)
(* the record of the parts the f-string renders, in rendering order.       *)
(***************************************************************************)
EXTENDS Integers, Sequences, FiniteSets, TLC

(***************************************************************************)
(* Bounds of the model.                                                    *)
(***************************************************************************)
\* rows one remote reply may carry (the branching factor B)
MaxRows == 2
\* rows the remote service hands out over a whole behaviour; once they are
\* used up it answers with empty row sets or fails
MaxTotalRows == 3
\* names of result_names the model keeps: the list of get_provenance grows as
\* long as its loop runs, the model keeps its first MaxChain names
MaxChain == 4

(***************************************************************************)
(* Values.                                                                 *)
(***************************************************************************)
None == "<None>"

\* hashtag names the catalogue may hold; "" is Python's empty string
Names == {"", "Top", "TTbar"}

Slots == 0..3

\* __main__.py ScopeEnum: the scopes the command line accepts
ScopeEnum ==
  { <<"mc16", "13TeV">>, <<"mc20", "13TeV">>,
    <<"mc21", "13p6TeV">>, <<"mc23", "13p6TeV">> }

\* datamodel.py SCOPE_TAGS, the evgen.short of each entry
SCOPE_TAGS ==
  ("mc16" :> "mc15") @@ ("mc20" :> "mc15") @@ ("mc23" :> "mc23")

\* f"PMGL{n}"
PMGL(n) == <<"PMGL", n>>

\* class CentralPageHashAddress(scope, hash_tags)
CentralPageHashAddress(scope, hash_tags) ==
  [scope |-> scope, hash_tags |-> hash_tags]

\* the addresses a behaviour may start from: a scope whose prefix SCOPE_TAGS
\* knows and one whose prefix it does not know, every slot None, "" or a name
SeedScopes == { s \in ScopeEnum : s[1] \in {"mc16", "mc21"} }
SeedTags == {None, "", "Top"}
Addresses ==
  { CentralPageHashAddress(s, t) : s \in SeedScopes, t \in [Slots -> SeedTags] }

\* the index of a hashtag scope: "PMGL<n>" is slot n-1; -1 stands for the
\* ValueError "Unknown hash scope"
hash_scope_index(hash_scope) ==
  IF hash_scope \in {PMGL(n) : n \in 1..4} THEN hash_scope[2] - 1 ELSE -1

\* a make_central_page_hash_address that binds the slot after the one the hash
\* scope names
make_central_page_hash_address_shifted(scope, hash_scope, hash_value) ==
  LET i == hash_scope_index(hash_scope)
  IN  IF i = -1
      THEN [raised |-> "ValueError", addr |-> CentralPageHashAddress(scope, [n \in Slots |-> None])]
      ELSE [raised |-> "",
            addr |-> CentralPageHashAddress(scope, [n \in Slots |-> IF n = (i + 1) % 4 THEN hash_value ELSE None])]

\* make_central_page_hash_address(scope, hash_scope, hash_value)
make_central_page_hash_address(scope, hash_scope, hash_value) ==
  LET i == hash_scope_index(hash_scope)
  IN  IF i = -1
      THEN [raised |-> "ValueError", addr |-> CentralPageHashAddress(scope, [n \in Slots |-> None])]
      ELSE [raised |-> "",
            addr |-> CentralPageHashAddress(scope, [n \in Slots |-> IF n = i THEN hash_value ELSE None])]

\* an add_hash_to_addr that binds the slot whatever it holds
add_hash_to_addr_overwriting(addr, hash_scope, hash_value) ==
  LET i == hash_scope_index(hash_scope)
  IN  IF i = -1
      THEN [raised |-> "ValueError", addr |-> addr]
      ELSE [raised |-> "",
            addr |-> CentralPageHashAddress(addr.scope, [addr.hash_tags EXCEPT ![i] = hash_value])]

\* add_hash_to_addr(addr, hash_scope, hash_value): the address with the slot of
\* hash_scope bound to hash_value (withSlotBound of the design): a new value,
\* InvalidIndex when the slot is out of range or already bound
add_hash_to_addr(addr, hash_scope, hash_value) ==
  LET i == hash_scope_index(hash_scope)
  IN  IF i = -1
      THEN [raised |-> "ValueError", addr |-> addr]
      ELSE IF addr.hash_tags[i] # None
      THEN [raised |-> "InvalidIndex", addr |-> addr]
      ELSE [raised |-> "",
            addr |-> CentralPageHashAddress(addr.scope, [addr.hash_tags EXCEPT ![i] = hash_value])]

(***************************************************************************)
(* find_missing_tag: the command text.                                     *)
(***************************************************************************)
\* a hashtag name with a double quote in it, and what ami.py 183 makes of it:
\* the same name with a backtick (written <backtick> here) for the quote
QuotedName == "T\"op"
BacktickedName == "T<backtick>op"

\* ami.py 183: the replace call on str(q) turns every double quote of the
\* rendered query into a backtick, those inside a hashtag name as well
backticked(name) == IF name = QuotedName THEN BacktickedName ELSE name

\* ami.py 171-180: one IN-subquery per slot that is not None, in slot order
RECURSIVE Subqueries(_, _)
Subqueries(hash_tags, n) ==
  IF n > 3 THEN <<>>
  ELSE (IF hash_tags[n] # None
        THEN << [alias |-> n + 1, SCOPE |-> PMGL(n + 1), NAME |-> backticked(hash_tags[n])] >>
        ELSE <<>>) \o Subqueries(hash_tags, n + 1)

\* scope.split("_")[0]
scope_short(scope) == scope[1]

\* a command that names the catalogue after the prefix of the scope
find_missing_tag_cmd_scoped(s_addr, missing_index) ==
  [ catalog |-> scope_short(s_addr.scope),
    entity  |-> "DATASET",
    SCOPE   |-> PMGL(missing_index + 1),
    isin    |-> Subqueries(s_addr.hash_tags, 0) ]

\* ami.py 160-193: the command of find_missing_tag; SCOPE_TAGS[scope_short] is
\* looked up by the caller, which raises KeyError for an unknown prefix
find_missing_tag_cmd(s_addr, missing_index) ==
  [ catalog |-> SCOPE_TAGS[scope_short(s_addr.scope)],
    entity  |-> "DATASET",
    SCOPE   |-> PMGL(missing_index + 1),
    isin    |-> Subqueries(s_addr.hash_tags, 0) ]

(***************************************************************************)
(* find_hashtag: the command text.                                         *)
(***************************************************************************)
\* the search strings a caller passes
SearchStrings == {"Top", "top"}

\* search_string.lower()
lower(text) == IF text = "Top" THEN "top" ELSE text

\* ami.py 101-118: the command of find_hashtag; SCOPE_TAGS[scope_short] is looked
\* up by the caller, which raises KeyError for an unknown prefix
find_hashtag_cmd(scope, search_string) ==
  [ catalog |-> SCOPE_TAGS[scope_short(scope)],
    entity  |-> "HASHTAGS",
    like    |-> backticked(lower(search_string)) ]

(***************************************************************************)
(* State.                                                                  *)
(***************************************************************************)
VARIABLES
  _cache,     \* ami.py 22: the process-wide handle, None or the directory it is open on
  disk,       \* the on-disk stores: directory -> (command text -> row set)
  arg,        \* the address the caller works with in this behaviour
  index,      \* the index a direct caller of find_missing_tag passes with it
  pc,         \* find_hashtag_tuples: "idle", "loop", "done" or "error"
  stack,      \* ami.py 222
  results,    \* ami.py 221
  returned,   \* what the caller of find_hashtag_tuples got: a list or an exception
  last,       \* the latest find_missing_tag or find_hashtag call and its
              \* execute_ami_command
  expanded,   \* the latest expansion of the search: the address and what was pushed
  pruned,     \* the addresses of this search whose query came back empty
  nCalls,     \* find_missing_tag calls of this search
  nExec,      \* remote executions of this search
  widest,     \* the longest list a find_missing_tag call of this search returned
  okExec,     \* <<directory, command>> -> remote executions of this process that
              \* returned a DOMObject
  firstRet,   \* <<directory, address, index>> -> the first list find_missing_tag
              \* returned in this process
  served,     \* rows the remote service has handed out
  service     \* the remote service: "any", "literal" (the worked example's
              \* catalogue), "loose" (rows may lack a field) or "seeds" (hashtags
              \* of every dimension)
VARIABLE
  prov        \* get_provenance: the rows of the edge view, backone and
              \* result_names of the loop of ami.py 436-443, and the parity of
              \* the number of names appended so far

vars ==
  << _cache, disk, arg, index, pc, stack, results, returned, last, expanded, pruned,
     nCalls, nExec, widest, okExec, firstRet, served, service, prov >>

\* get_cache: Path.home() / ".cache" / "ami-helper"
HomeDir == "~/.cache/ami-helper"
\* the directory of a store the caller opens itself, as the fixture temp_cache
\* of the tests does
TmpDir == "tmpdir"
Dirs == {HomeDir, TmpDir}

Empty == [x \in {} |-> <<>>]

NoCmd == [catalog |-> "", entity |-> "", SCOPE |-> PMGL(0), isin |-> <<>>]
NoAddr == CentralPageHashAddress(<<"", "">>, [n \in Slots |-> None])
\* nothing handed to the caller of find_hashtag_tuples yet
NoReturn == [ok |-> FALSE, value |-> <<>>, raised |-> ""]
\* a find_hashtag call is recorded with its scope as the scope of s_addr, a
\* get_metadata or find_dids_with_name call also with its name as search_string;
\* message is what the exception raised names, warned whether logger.warning
\* was called
NoCall ==
  [ op |-> "", s_addr |-> NoAddr, missing_index |-> -1, search_string |-> "",
    cmd |-> NoCmd, dir |-> "",
    hit |-> FALSE, executed |-> 0, raised |-> "", rows |-> <<>>, returned |-> <<>>,
    remote |-> "", again |-> FALSE, message |-> <<>>, warned |-> FALSE ]
NoExpansion == [current |-> NoAddr, index |-> -1, pushed |-> <<>>]
\* get_provenance is not running
NoProv == [edges |-> <<>>, backone |-> "", result_names |-> <<>>, parity |-> 0]

(***************************************************************************)
(* The remote service.                                                     *)
(***************************************************************************)
Min(a, b) == IF a < b THEN a ELSE b

RECURSIVE SeqsUpTo(_, _)
SeqsUpTo(S, n) ==
  IF n = 0 THEN { <<>> }
  ELSE LET shorter == SeqsUpTo(S, n - 1)
       IN  shorter \cup { Append(q, x) : q \in { r \in shorter : Len(r) = n - 1 }, x \in S }

\* a row of the reply to a find_missing_tag command
Row(hash_scope, name) == [HASHTAGS_SCOPE |-> hash_scope, HASHTAGS_NAME |-> name]

\* row sets of a DOMObject: rows of the hashtag scope the WHERE clause of
\* ami.py 166 asks for, or one row the service should not have sent: of the
\* next hashtag scope, or of a hashtag scope that is no PMGL1..PMGL4
RowSets(cmd) ==
  LET n == Min(MaxRows, MaxTotalRows - served)
  IN  { [k \in 1..Len(q) |-> Row(cmd.SCOPE, q[k])] : q \in SeqsUpTo(Names, n) }
      \cup (IF n = 0 THEN {}
            ELSE { << Row(PMGL((cmd.SCOPE[2] % 4) + 1), "Top") >>,
                   << Row(PMGL(5), "Top") >> })

\* with a loose service, a row set whose last row lacks HASHTAGS.NAME or
\* HASHTAGS.SCOPE
LackingRows(cmd) ==
  LET n == Min(MaxRows, MaxTotalRows - served)
  IN  (IF n = 0 THEN {}
       ELSE { << [HASHTAGS_SCOPE |-> cmd.SCOPE] >>, << [HASHTAGS_NAME |-> "Top"] >> })
      \cup (IF n < 2 THEN {}
            ELSE { << Row(cmd.SCOPE, "Top"), [HASHTAGS_SCOPE |-> cmd.SCOPE] >> })

\* a row of the reply to a find_hashtag command
HashtagRow(hash_scope, name) == [SCOPE |-> hash_scope, NAME |-> name]

\* row sets of the DOMObject answering a find_hashtag command: hashtags of a
\* dimension PMGL1..PMGL4 (of each of them with the service "seeds") and of one
\* that is none of them, and with a loose service a row that lacks NAME or SCOPE
HashtagRowSets(cmd) ==
  LET n == Min(MaxRows, MaxTotalRows - served)
  IN  SeqsUpTo(IF service = "seeds"
               THEN { HashtagRow(PMGL(d), "Top") : d \in 1..5 }
               ELSE { HashtagRow(PMGL(3), "Top"), HashtagRow(PMGL(5), "Top") }, n)
      \cup (IF n = 0 \/ service # "loose" THEN {}
            ELSE { << [SCOPE |-> PMGL(1)] >>, << [NAME |-> "Top"] >> })

\* the catalogue of the design's worked example, scope mc16_13TeV: the
\* candidates of a target dimension PMGL<n> under the constraints
\* << <<dimension, name>>, ... >> of the command
Scenario ==
  (<< 2, << <<1, "Top">> >> >> :> << "TTbar" >>)
  @@ (<< 3, << <<1, "Top">>, <<2, "TTbar">> >> >> :> << "Baseline", "Wt" >>)
  @@ (<< 4, << <<1, "Top">>, <<2, "TTbar">>, <<3, "Baseline">> >> >> :> << "PowhegPythia" >>)
  @@ (<< 4, << <<1, "Top">>, <<2, "TTbar">>, <<3, "Wt">> >> >> :> << "PowhegPythia" >>)

\* the rows that catalogue answers cmd with: none for a query it has no entry for
ScenarioRows(cmd) ==
  LET key == << cmd.SCOPE[2],
                [k \in 1..Len(cmd.isin) |-> << cmd.isin[k].SCOPE[2], cmd.isin[k].NAME >>] >>
  IN  IF cmd.catalog = "mc15" /\ key \in DOMAIN Scenario
      THEN [k \in 1..Len(Scenario[key]) |-> Row(cmd.SCOPE, Scenario[key][k])]
      ELSE <<>>

\* the rows that catalogue answers a find_hashtag command with: the hashtag of
\* the worked example's seed
ScenarioHashtags == << HashtagRow(PMGL(1), "Top") >>

\* what ami.execute(cmd, format="dom_object") may do: return a DOMObject with
\* some rows, raise, or return something that is no DOMObject
Replies(cmd) ==
  { [kind |-> "DOMObject", rows |-> rows] :
      rows \in IF cmd.entity = "HASHTAGS"
               THEN (IF service = "literal" THEN {ScenarioHashtags} ELSE HashtagRowSets(cmd))
               ELSE IF service = "literal" THEN {ScenarioRows(cmd)}
               ELSE IF service = "loose" THEN RowSets(cmd) \cup LackingRows(cmd)
               ELSE RowSets(cmd) }
  \cup { [kind |-> "raise", rows |-> <<>>], [kind |-> "other", rows |-> <<>>] }

(***************************************************************************)
(* The query cache.                                                        *)
(***************************************************************************)
\* a get_cache that opens the default store whatever handle is set
get_cache_reopening == HomeDir

\* a get_cache that opens a store elsewhere when no handle is set
get_cache_elsewhere == IF _cache = None THEN TmpDir ELSE _cache

\* ami.py 25-33 get_cache: the handle after the call; the default store is
\* opened on HomeDir when no handle is set
get_cache == IF _cache = None THEN HomeDir ELSE _cache

\* a set that stores nothing
cache_set_skipped(store, cmd, result) == store

\* a set that stores the row set without its rows
cache_set_emptied(store, cmd, result) ==
  [k \in DOMAIN store \cup {cmd} |-> IF k = cmd THEN <<>> ELSE store[k]]

\* ami.py 73 cache.set(cmd, result)
cache_set(store, cmd, result) ==
  [k \in DOMAIN store \cup {cmd} |-> IF k = cmd THEN result ELSE store[k]]

\* an execute_ami_command that never looks the command up
execute_ami_command_uncached(cmd, reply) ==
  LET cache == get_cache
      base == [ cache |-> cache, disk |-> disk, hit |-> FALSE, executed |-> 1,
                raised |-> "", result |-> <<>> ]
  IN  IF reply.kind = "raise" THEN [base EXCEPT !.raised = "RemoteError"]
      ELSE IF reply.kind # "DOMObject" THEN [base EXCEPT !.raised = "AssertionError"]
      ELSE [base EXCEPT !.result = reply.rows,
                        !.disk = [disk EXCEPT ![cache] = cache_set(@, cmd, reply.rows)]]

\* an execute_ami_command that answers a failed remote execution with an empty
\* row set and stores it
execute_ami_command_caching_failure(cmd, reply) ==
  LET cache == get_cache
      base == [ cache |-> cache, disk |-> disk, hit |-> FALSE, executed |-> 0,
                raised |-> "", result |-> <<>> ]
  IN  IF cmd \in DOMAIN disk[cache]
      THEN [base EXCEPT !.hit = TRUE, !.result = disk[cache][cmd]]
      ELSE IF reply.kind # "DOMObject"
      THEN [base EXCEPT !.executed = 1,
                        !.disk = [disk EXCEPT ![cache] = cache_set(@, cmd, <<>>)]]
      ELSE [base EXCEPT !.executed = 1, !.result = reply.rows,
                        !.disk = [disk EXCEPT ![cache] = cache_set(@, cmd, reply.rows)]]

\* an execute_ami_command that looks the command up in the store of the handle
\* and stores the result in the default store
execute_ami_command_storing_home(cmd, reply) ==
  LET cache == get_cache
      base == [ cache |-> cache, disk |-> disk, hit |-> FALSE, executed |-> 0,
                raised |-> "", result |-> <<>> ]
  IN  IF cmd \in DOMAIN disk[cache]
      THEN [base EXCEPT !.hit = TRUE, !.result = disk[cache][cmd]]
      ELSE IF reply.kind = "raise"
      THEN [base EXCEPT !.executed = 1, !.raised = "RemoteError"]
      ELSE IF reply.kind # "DOMObject"
      THEN [base EXCEPT !.executed = 1, !.raised = "AssertionError"]
      ELSE [base EXCEPT !.executed = 1, !.result = reply.rows,
                        !.disk = [disk EXCEPT ![HomeDir] = cache_set(@, cmd, reply.rows)]]

\* ami.py 42-75 execute_ami_command(cmd), the remote service answering reply
\* when it is asked: the handle and the stores after the call, whether the
\* remote service was executed, the exception raised ("" for none) and the
\* value returned
execute_ami_command(cmd, reply) ==
  LET cache == get_cache
      base == [ cache |-> cache, disk |-> disk, hit |-> FALSE, executed |-> 0,
                raised |-> "", result |-> <<>> ]
  IN  IF cmd \in DOMAIN disk[cache]
      THEN [base EXCEPT !.hit = TRUE, !.result = disk[cache][cmd]]
      ELSE IF reply.kind = "raise"
      THEN [base EXCEPT !.executed = 1, !.raised = "RemoteError"]
      ELSE IF reply.kind # "DOMObject"
      THEN [base EXCEPT !.executed = 1, !.raised = "AssertionError"]
      ELSE [base EXCEPT !.executed = 1, !.result = reply.rows,
                        !.disk = [disk EXCEPT ![cache] = cache_set(@, cmd, reply.rows)]]

(***************************************************************************)
(* find_missing_tag.                                                       *)
(***************************************************************************)
\* the comprehension without its binding: every row yields s_addr as it is
rows_to_addrs_unbinding(s_addr, rows, k) ==
  [raised |-> "", list |-> [j \in 1..Len(rows) |-> s_addr]]

\* a comprehension that answers every row set with the empty list
rows_to_addrs_lenient(s_addr, rows, k) == [raised |-> "", list |-> <<>>]

\* ami.py 197-200: the list comprehension over the rows; the first row that
\* lacks a field (KeyError of the row lookup) or whose add_hash_to_addr raises
\* ends it
RECURSIVE rows_to_addrs(_, _, _)
rows_to_addrs(s_addr, rows, k) ==
  IF k > Len(rows) THEN [raised |-> "", list |-> <<>>]
  ELSE LET one == IF {"HASHTAGS_SCOPE", "HASHTAGS_NAME"} \subseteq DOMAIN rows[k]
                  THEN add_hash_to_addr(s_addr, rows[k].HASHTAGS_SCOPE, rows[k].HASHTAGS_NAME)
                  ELSE [raised |-> "KeyError", addr |-> s_addr]
           rest == rows_to_addrs(s_addr, rows, k + 1)
       IN  IF one.raised # "" THEN [raised |-> one.raised, list |-> <<>>]
           ELSE IF rest.raised # "" THEN rest
           ELSE [raised |-> "", list |-> <<one.addr>> \o rest.list]

\* ami.py 128-200 find_missing_tag(s_addr, missing_index): the record of the
\* call (NoCall's fields) together with the handle and the stores after it
find_missing_tag(s_addr, missing_index, reply) ==
  LET call == [NoCall EXCEPT !.op = "find_missing_tag", !.s_addr = s_addr,
                             !.missing_index = missing_index]
  IN  IF scope_short(s_addr.scope) \notin DOMAIN SCOPE_TAGS
      THEN [call |-> [call EXCEPT !.raised = "KeyError"], cache |-> _cache, disk |-> disk]
      ELSE
        LET cmd == find_missing_tag_cmd(s_addr, missing_index)
            x == execute_ami_command(cmd, reply)
            got == rows_to_addrs(s_addr, x.result, 1)
            seen == [call EXCEPT !.cmd = cmd, !.dir = x.cache, !.hit = x.hit,
                                 !.executed = x.executed, !.rows = x.result,
                                 !.remote = IF x.executed = 1 THEN reply.kind ELSE ""]
        IN  [ call |-> IF x.raised # "" THEN [seen EXCEPT !.raised = x.raised]
                       ELSE IF got.raised # "" THEN [seen EXCEPT !.raised = got.raised]
                       ELSE [seen EXCEPT !.returned = got.list],
              cache |-> x.cache, disk |-> x.disk ]

(***************************************************************************)
(* find_hashtag.                                                           *)
(***************************************************************************)
\* ami.py 123-125: the list comprehension over the rows; the first row that
\* lacks a field or whose make_central_page_hash_address raises ends it
RECURSIVE rows_to_seeds(_, _, _)
rows_to_seeds(scope, rows, k) ==
  IF k > Len(rows) THEN [raised |-> "", list |-> <<>>]
  ELSE LET one == IF {"SCOPE", "NAME"} \subseteq DOMAIN rows[k]
                  THEN make_central_page_hash_address(scope, rows[k].SCOPE, rows[k].NAME)
                  ELSE [raised |-> "KeyError",
                        addr |-> CentralPageHashAddress(scope, [n \in Slots |-> None])]
           rest == rows_to_seeds(scope, rows, k + 1)
       IN  IF one.raised # "" THEN [raised |-> one.raised, list |-> <<>>]
           ELSE IF rest.raised # "" THEN rest
           ELSE [raised |-> "", list |-> <<one.addr>> \o rest.list]

\* a find_hashtag that falls back on the catalogue mc15 for a scope prefix
\* SCOPE_TAGS does not know
find_hashtag_defaulting(scope, search_string, reply) ==
  LET call == [NoCall EXCEPT !.op = "find_hashtag",
                             !.s_addr = CentralPageHashAddress(scope, [n \in Slots |-> None]),
                             !.search_string = search_string]
      cmd == [ catalog |-> IF scope_short(scope) \in DOMAIN SCOPE_TAGS
                           THEN SCOPE_TAGS[scope_short(scope)] ELSE "mc15",
               entity |-> "HASHTAGS", like |-> backticked(lower(search_string)) ]
      x == execute_ami_command(cmd, reply)
      got == rows_to_seeds(scope, x.result, 1)
      seen == [call EXCEPT !.cmd = cmd, !.dir = x.cache, !.hit = x.hit,
                           !.executed = x.executed, !.rows = x.result,
                           !.remote = IF x.executed = 1 THEN reply.kind ELSE ""]
  IN  [ call |-> IF x.raised # "" THEN [seen EXCEPT !.raised = x.raised]
                 ELSE IF got.raised # "" THEN [seen EXCEPT !.raised = got.raised]
                 ELSE [seen EXCEPT !.returned = got.list],
        cache |-> x.cache, disk |-> x.disk ]

\* ami.py 78-125 find_hashtag(scope, search_string): the record of the call
\* (NoCall's fields) together with the handle and the stores after it
find_hashtag(scope, search_string, reply) ==
  LET call == [NoCall EXCEPT !.op = "find_hashtag",
                             !.s_addr = CentralPageHashAddress(scope, [n \in Slots |-> None]),
                             !.search_string = search_string]
  IN  IF scope_short(scope) \notin DOMAIN SCOPE_TAGS
      THEN [call |-> [call EXCEPT !.raised = "KeyError"], cache |-> _cache, disk |-> disk]
      ELSE
        LET cmd == find_hashtag_cmd(scope, search_string)
            x == execute_ami_command(cmd, reply)
            got == rows_to_seeds(scope, x.result, 1)
            seen == [call EXCEPT !.cmd = cmd, !.dir = x.cache, !.hit = x.hit,
                                 !.executed = x.executed, !.rows = x.result,
                                 !.remote = IF x.executed = 1 THEN reply.kind ELSE ""]
        IN  [ call |-> IF x.raised # "" THEN [seen EXCEPT !.raised = x.raised]
                       ELSE IF got.raised # "" THEN [seen EXCEPT !.raised = got.raised]
                       ELSE [seen EXCEPT !.returned = got.list],
              cache |-> x.cache, disk |-> x.disk ]

\* the replies worth asking the service for in a find_hashtag call
RepliesForHashtag(scope, search_string) ==
  IF scope_short(scope) \notin DOMAIN SCOPE_TAGS
  THEN { [kind |-> "raise", rows |-> <<>>] }
  ELSE LET cmd == find_hashtag_cmd(scope, search_string)
       IN  IF cmd \in DOMAIN disk[get_cache]
           THEN { [kind |-> "raise", rows |-> <<>>] }
           ELSE Replies(cmd)

(***************************************************************************)
(* get_metadata.                                                           *)
(***************************************************************************)
\* the dataset names a caller passes
DatasetNames == {"ds1", "ds2"}

\* ami.py 376-380: the columns selected
MetadataColumns ==
  << "PHYSICSCOMMENT", "PHYSICSSHORT", "GENERATORNAME", "GENFILTEFF", "CROSSSECTION" >>

\* ami.py 372-392: the command of get_metadata; SCOPE_TAGS[scope_short] is looked
\* up by the caller, which raises KeyError for an unknown prefix
get_metadata_cmd(scope, name) ==
  [ catalog |-> SCOPE_TAGS[scope_short(scope)],
    entity  |-> "DATASET",
    select  |-> MetadataColumns,
    LOGICALDATASETNAME |-> backticked(name),
    AMISTATUS |-> "VALID" ]

\* ami.py 403-409 name_map
name_map ==
  ("PHYSICSCOMMENT" :> "Physics Comment") @@ ("PHYSICSSHORT" :> "Physics Short Name")
  @@ ("GENERATORNAME" :> "Generator Name") @@ ("GENFILTEFF" :> "Filter Efficiency")
  @@ ("CROSSSECTION" :> "Cross Section (nb)")

\* name_map.get(k, k)
name_map_get(k) == IF k \in DOMAIN name_map THEN name_map[k] ELSE k

\* a re-keying that keeps the column names
rekeyed_not(row) == row

\* ami.py 411: {name_map.get(k, k): v for k, v in rows[0].items()}
rekeyed(row) ==
  [ f \in { name_map_get(k) : k \in DOMAIN row } |->
      row[CHOOSE k \in DOMAIN row : name_map_get(k) = f] ]

\* a row of the reply to a get_metadata command: the selected columns of a
\* dataset, with the column the service adds of itself when extra is set
MetadataRow(comment, extra) ==
  [ c \in { MetadataColumns[j] : j \in 1..Len(MetadataColumns) }
          \cup (IF extra THEN {"PROJECT"} ELSE {}) |->
      IF c = "PHYSICSCOMMENT" THEN comment ELSE IF c = "PROJECT" THEN "mc16" ELSE "1.0" ]

\* row sets of the DOMObject answering a get_metadata command
MetadataRowSets(cmd) ==
  LET n == Min(MaxRows, MaxTotalRows - served)
  IN  SeqsUpTo({ MetadataRow("ttbar", FALSE), MetadataRow("Wt", TRUE) }, n)

\* the replies worth asking the service for in a get_metadata call
RepliesForMetadata(scope, name) ==
  IF scope_short(scope) \notin DOMAIN SCOPE_TAGS
  THEN { [kind |-> "raise", rows |-> <<>>] }
  ELSE LET cmd == get_metadata_cmd(scope, name)
       IN  IF cmd \in DOMAIN disk[get_cache]
           THEN { [kind |-> "raise", rows |-> <<>>] }
           ELSE { [kind |-> "DOMObject", rows |-> rows] : rows \in MetadataRowSets(cmd) }
                \cup { [kind |-> "raise", rows |-> <<>>], [kind |-> "other", rows |-> <<>>] }

\* a get_metadata that returns the first row however many rows there are
get_metadata_first(scope, name, reply) ==
  LET call == [NoCall EXCEPT !.op = "get_metadata",
                             !.s_addr = CentralPageHashAddress(scope, [n \in Slots |-> None]),
                             !.search_string = name]
      cmd == get_metadata_cmd(scope, name)
      x == execute_ami_command(cmd, reply)
      seen == [call EXCEPT !.cmd = cmd, !.dir = x.cache, !.hit = x.hit,
                           !.executed = x.executed, !.rows = x.result,
                           !.remote = IF x.executed = 1 THEN reply.kind ELSE ""]
  IN  IF scope_short(scope) \notin DOMAIN SCOPE_TAGS
      THEN [call |-> [call EXCEPT !.raised = "KeyError"], cache |-> _cache, disk |-> disk]
      ELSE [ call |-> IF x.raised # "" THEN [seen EXCEPT !.raised = x.raised]
                      ELSE IF Len(x.result) = 0
                      THEN [seen EXCEPT !.raised = "RuntimeError", !.message = << name, scope >>]
                      ELSE [seen EXCEPT !.returned = << rekeyed(x.result[1]) >>],
             cache |-> x.cache, disk |-> x.disk ]

\* ami.py 360-413 get_metadata(scope, name): the record of the call (NoCall's
\* fields, the dictionary returned as the one element of returned) together
\* with the handle and the stores after it
get_metadata(scope, name, reply) ==
  LET call == [NoCall EXCEPT !.op = "get_metadata",
                             !.s_addr = CentralPageHashAddress(scope, [n \in Slots |-> None]),
                             !.search_string = name]
  IN  IF scope_short(scope) \notin DOMAIN SCOPE_TAGS
      THEN [call |-> [call EXCEPT !.raised = "KeyError"], cache |-> _cache, disk |-> disk]
      ELSE
        LET cmd == get_metadata_cmd(scope, name)
            x == execute_ami_command(cmd, reply)
            seen == [call EXCEPT !.cmd = cmd, !.dir = x.cache, !.hit = x.hit,
                                 !.executed = x.executed, !.rows = x.result,
                                 !.remote = IF x.executed = 1 THEN reply.kind ELSE ""]
        IN  [ call |-> IF x.raised # "" THEN [seen EXCEPT !.raised = x.raised]
                       ELSE IF Len(x.result) = 0
                       THEN [seen EXCEPT !.raised = "RuntimeError", !.message = << name, scope >>]
                       ELSE IF Len(x.result) # 1
                       THEN [seen EXCEPT !.raised = "AssertionError",
                                         !.message = << name, Len(x.result) >>]
                       ELSE [seen EXCEPT !.returned = << rekeyed(x.result[1]) >>],
              cache |-> x.cache, disk |-> x.disk ]

(***************************************************************************)
(* find_dids_with_name.                                                    *)
(***************************************************************************)
\* ami.py 303
results_limit == 500

\* the row limit the tests look for in the rendered query
ExpectedLimit == 100

\* the names a caller searches for
SearchNames == {"ttbar", "zprime"}

\* ami.py 273-330: the command of find_dids_with_name: inner joins with
\* require_pmg, left joins without; SCOPE_TAGS[scope_short] is looked up by the
\* caller, which raises KeyError for an unknown prefix
find_dids_with_name_cmd(scope, name, require_pmg) ==
  [ catalog |-> SCOPE_TAGS[scope_short(scope)],
    entity  |-> "DATASET",
    join    |-> IF require_pmg THEN "JOIN" ELSE "LEFT JOIN",
    like    |-> backticked(name),
    DATATYPE |-> "EVNT",
    AMISTATUS |-> "VALID",
    limit   |-> results_limit ]

\* a row of the reply to a find_dids_with_name command
DidRow ==
  ("LOGICALDATASETNAME" :> "mc16_13TeV.1.ttbar.EVNT")
  @@ ("h1.NAME PMGL1" :> "Top") @@ ("h2.NAME PMGL2" :> "")
  @@ ("h3.NAME PMGL3" :> None) @@ ("h4.NAME PMGL4" :> "TTbar")

\* the numbers of rows a reply may have: none, one, the limit the tests look
\* for and the limit of the query
DidRowCounts == {0, 1, ExpectedLimit, results_limit}

\* the replies worth asking the service for in a find_dids_with_name call
RepliesForDids(scope, name, require_pmg) ==
  IF scope_short(scope) \notin DOMAIN SCOPE_TAGS
  THEN { [kind |-> "raise", rows |-> <<>>] }
  ELSE LET cmd == find_dids_with_name_cmd(scope, name, require_pmg)
       IN  IF cmd \in DOMAIN disk[get_cache]
           THEN { [kind |-> "raise", rows |-> <<>>] }
           ELSE { [kind |-> "DOMObject", rows |-> [k \in 1..n |-> DidRow]] : n \in DidRowCounts }
                \cup { [kind |-> "raise", rows |-> <<>>], [kind |-> "other", rows |-> <<>>] }

\* ami.py 341-355: the tuple made of a row
did_of(scope, row) ==
  << row["LOGICALDATASETNAME"],
     CentralPageHashAddress(scope, [n \in Slots |->
       IF n = 0 THEN row["h1.NAME PMGL1"] ELSE IF n = 1 THEN row["h2.NAME PMGL2"]
       ELSE IF n = 2 THEN row["h3.NAME PMGL3"] ELSE row["h4.NAME PMGL4"]]) >>

\* ami.py 256-357 find_dids_with_name(scope, name, require_pmg): the record of
\* the call (NoCall's fields) together with the handle and the stores after it
find_dids_with_name(scope, name, require_pmg, reply) ==
  LET call == [NoCall EXCEPT !.op = "find_dids_with_name",
                             !.s_addr = CentralPageHashAddress(scope, [n \in Slots |-> None]),
                             !.search_string = name]
  IN  IF scope_short(scope) \notin DOMAIN SCOPE_TAGS
      THEN [call |-> [call EXCEPT !.raised = "KeyError"], cache |-> _cache, disk |-> disk]
      ELSE
        LET cmd == find_dids_with_name_cmd(scope, name, require_pmg)
            x == execute_ami_command(cmd, reply)
            seen == [call EXCEPT !.cmd = cmd, !.dir = x.cache, !.hit = x.hit,
                                 !.executed = x.executed, !.rows = x.result,
                                 !.remote = IF x.executed = 1 THEN reply.kind ELSE ""]
        IN  [ call |-> IF x.raised # "" THEN [seen EXCEPT !.raised = x.raised]
                       ELSE [seen EXCEPT !.warned = (Len(x.result) = results_limit),
                                         !.returned = [k \in 1..Len(x.result) |->
                                                         did_of(scope, x.result[k])]],
              cache |-> x.cache, disk |-> x.disk ]

(***************************************************************************)
(* get_provenance.                                                         *)
(***************************************************************************)
\* the dataset whose provenance is asked for, and the datasets edges may name
ProvDataset == "ds"
ProvNames == {ProvDataset, "parent", "other"}

\* ami.py 428: the command of get_provenance; the scope argument is not used
get_provenance_cmd(ds_name) ==
  [ op |-> "GetDatasetProvenance", logicalDatasetName |-> ds_name ]

\* a row of the edge view
Edge(source, destination) == [source |-> source, destination |-> destination]

\* row sets of the edge view of the DOMObject answering a get_provenance command
EdgeRowSets(cmd) ==
  LET n == Min(MaxRows, MaxTotalRows - served)
  IN  SeqsUpTo({ Edge(src, dst) : src \in ProvNames, dst \in ProvNames }, n)

\* the replies worth asking the service for in a get_provenance call
RepliesForProvenance(ds_name) ==
  LET cmd == get_provenance_cmd(ds_name)
  IN  IF cmd \in DOMAIN disk[get_cache]
      THEN { [kind |-> "raise", rows |-> <<>>] }
      ELSE { [kind |-> "DOMObject", rows |-> rows] : rows \in EdgeRowSets(cmd) }
           \cup { [kind |-> "raise", rows |-> <<>>], [kind |-> "other", rows |-> <<>>] }

\* ami.py 431-434 find_backone(name): the source of the first edge whose
\* destination is name, None when there is none
RECURSIVE find_backone(_, _, _)
find_backone(edges, name, k) ==
  IF k > Len(edges) THEN None
  ELSE IF edges[k].destination = name THEN edges[k].source
  ELSE find_backone(edges, name, k + 1)

\* the replies worth asking the service for: one suffices when the call never
\* reaches it
RepliesFor(s_addr, missing_index) ==
  IF scope_short(s_addr.scope) \notin DOMAIN SCOPE_TAGS
  THEN { [kind |-> "raise", rows |-> <<>>] }
  ELSE LET cmd == find_missing_tag_cmd(s_addr, missing_index)
       IN  IF cmd \in DOMAIN disk[get_cache]
           THEN { [kind |-> "raise", rows |-> <<>>] }
           ELSE Replies(cmd)

\* the bookkeeping of one find_missing_tag call
Bump(f, k) == IF k \in DOMAIN f THEN [f EXCEPT ![k] = @ + 1] ELSE f @@ (k :> 1)

RemoteFailures == {"RemoteError", "AssertionError"}

\* the remote execution of the call raised or returned no DOMObject
FailedRemotely(call) == call.remote \in {"raise", "other"}

\* last.remote is what the remote service did in the call, "" when it was not
\* asked; last.again: the call before this one sent the same command to the same
\* store and its remote execution failed
Recorded(c) ==
  /\ last' = [c EXCEPT !.again = /\ FailedRemotely(last)
                                  /\ last.cmd = c.cmd
                                  /\ last.dir = c.dir]
  /\ served' = served + (IF c.remote = "DOMObject"
                         THEN Len(c.rows) ELSE 0)
  /\ okExec' = IF c.remote = "DOMObject"
               THEN Bump(okExec, <<c.dir, c.cmd>>) ELSE okExec
  /\ firstRet' = IF c.op # "find_missing_tag" THEN firstRet
                 ELSE IF c.raised = "" /\ <<c.dir, c.s_addr, c.missing_index>> \notin DOMAIN firstRet
                 THEN firstRet @@ (<<c.dir, c.s_addr, c.missing_index>> :> c.returned)
                 ELSE firstRet

(***************************************************************************)
(* find_hashtag_tuples.                                                    *)
(***************************************************************************)
\* Python's "not t" for t a string or None
falsy(t) == t = None \/ t = ""

\* ami.py 226: [i for i, t in enumerate(current_addr.hash_tags) if not t]
missing_index(current_addr) == { i \in Slots : falsy(current_addr.hash_tags[i]) }

\* missing_index[0]
first_of(indexes) == CHOOSE i \in indexes : \A j \in indexes : i <= j

\* a pop that hands out the oldest element
top_first(stk) == stk[1]

\* ami.py 225: stack.pop() takes the last element
top(stk) == stk[Len(stk)]
\* a pop that leaves the element on the stack
popped_kept(stk) == stk
popped(stk) == SubSeq(stk, 1, Len(stk) - 1)

\* an extend that pushes every candidate twice
extend_twice(stk, possible_tags) == stk \o possible_tags \o possible_tags

\* a list without the repetitions of its elements
RECURSIVE first_occurrences(_, _)
first_occurrences(q, k) ==
  IF k > Len(q) THEN <<>>
  ELSE (IF \E j \in 1..(k - 1) : q[j] = q[k] THEN <<>> ELSE << q[k] >>)
       \o first_occurrences(q, k + 1)

\* an extend that pushes a candidate once however often the list holds it
extend_distinct(stk, possible_tags) == stk \o first_occurrences(possible_tags, 1)

\* ami.py 236: stack.extend(possible_tags)
extend(stk, possible_tags) == stk \o possible_tags

\* a call site that swallows the exception and goes on as with an empty list
propagates_never(call) == FALSE

\* ami.py 232: the call stands in no try block, so an exception of
\* find_missing_tag leaves find_hashtag_tuples
propagates(call) == call.raised # ""

\* an append that forgets the address
append_dropping(res, current_addr) == res

\* ami.py 228: results.append(current_addr)
append(res, current_addr) == Append(res, current_addr)

\* a fresh process with no store on disk and nothing called yet
Start ==
  /\ _cache = None
  /\ disk = [d \in Dirs |-> Empty]
  /\ pc = "idle"
  /\ stack = <<>>
  /\ results = <<>>
  /\ returned = NoReturn
  /\ last = NoCall
  /\ expanded = NoExpansion
  /\ pruned = {}
  /\ nCalls = 0
  /\ nExec = 0
  /\ widest = 0
  /\ okExec = Empty
  /\ firstRet = Empty
  /\ served = 0
  /\ prov = NoProv

Init ==
  /\ Start
  /\ arg \in Addresses
  /\ index = 0
  /\ service = "any"

\* ami.py 221-222: the caller enters find_hashtag_tuples(arg)
Enter ==
  /\ pc = "idle"
  /\ pc' = "loop"
  /\ stack' = << arg >>
  /\ results' = <<>>
  /\ returned' = NoReturn
  /\ expanded' = NoExpansion
  /\ pruned' = {}
  /\ nCalls' = 0
  /\ nExec' = 0
  /\ widest' = 0
  /\ UNCHANGED << _cache, disk, arg, index, last, okExec, firstRet, served, service, prov >>

\* ami.py 224-229: an iteration that pops an address with no missing slot
Collect ==
  /\ pc = "loop"
  /\ stack # <<>>
  /\ missing_index(top(stack)) = {}
  /\ results' = append(results, top(stack))
  /\ stack' = popped(stack)
  /\ UNCHANGED << _cache, disk, arg, index, pc, returned, last, expanded, pruned,
                  nCalls, nExec, widest, okExec, firstRet, served, service, prov >>

\* ami.py 224-236: an iteration that pops an address with a missing slot and
\* asks find_missing_tag for its first missing index; an exception of the call
\* leaves find_hashtag_tuples
Expand ==
  /\ pc = "loop"
  /\ stack # <<>>
  /\ missing_index(top(stack)) # {}
  /\ LET current_addr == top(stack)
         i == first_of(missing_index(current_addr))
     IN  \E r \in { find_missing_tag(current_addr, i, reply) :
                       reply \in RepliesFor(current_addr, i) } :
           /\ Recorded(r.call)
           /\ _cache' = r.cache
           /\ disk' = r.disk
           /\ nCalls' = nCalls + 1
           /\ nExec' = nExec + r.call.executed
           /\ IF propagates(r.call)
              THEN /\ pc' = "error"
                   /\ returned' = [ok |-> FALSE, value |-> <<>>, raised |-> r.call.raised]
                   /\ stack' = popped(stack)
                   /\ UNCHANGED << expanded, pruned, widest >>
              ELSE /\ stack' = extend(popped(stack), r.call.returned)
                   /\ expanded' = [current |-> current_addr, index |-> i,
                                   pushed |-> r.call.returned]
                   /\ pruned' = IF r.call.returned = <<>>
                                THEN pruned \cup {current_addr} ELSE pruned
                   /\ widest' = IF Len(r.call.returned) > widest
                                THEN Len(r.call.returned) ELSE widest
                   /\ UNCHANGED << pc, returned >>
  /\ UNCHANGED << arg, index, results, service, prov >>

\* ami.py 224, 237: the worklist is empty, results is returned
Leave ==
  /\ pc = "loop"
  /\ stack = <<>>
  /\ pc' = "done"
  /\ returned' = [ok |-> TRUE, value |-> results, raised |-> ""]
  /\ UNCHANGED << _cache, disk, arg, index, stack, results, last, expanded, pruned,
                  nCalls, nExec, widest, okExec, firstRet, served, service, prov >>

\* the caller goes on with what it got
Resume ==
  /\ pc \in {"done", "error", "asked"}
  /\ pc' = "idle"
  /\ stack' = <<>>
  /\ results' = <<>>
  /\ returned' = NoReturn
  /\ expanded' = NoExpansion
  /\ pruned' = {}
  /\ nCalls' = 0
  /\ nExec' = 0
  /\ widest' = 0
  /\ UNCHANGED << _cache, disk, arg, index, last, okExec, firstRet, served, service, prov >>

\* ami.py 36-39 set_cache(cache), here set_cache(None): the handle is dropped, as
\* at the end of a test or of the process; the directory keeps its entries
set_cache ==
  /\ pc = "idle"
  /\ \E cache \in {None} :
       /\ cache # _cache
       /\ _cache' = cache
  /\ UNCHANGED << disk, arg, index, pc, stack, results, returned, last, expanded, pruned,
                  nCalls, nExec, widest, okExec, firstRet, served, service, prov >>

\* ami.py 36-39 set_cache(cache) with the handle of a store: the caller rebinds
\* the layer between two calls
Rebind ==
  /\ pc = "idle"
  /\ \E cache \in Dirs :
       /\ cache # _cache
       /\ _cache' = cache
  /\ UNCHANGED << disk, arg, index, pc, stack, results, returned, last, expanded, pruned,
                  nCalls, nExec, widest, okExec, firstRet, served, service, prov >>

\* ami.py 22: the process ends and a new one starts: the module is loaded again
\* with _cache = None and nothing called yet, and the counts of what the process
\* executed start anew; the directories keep their entries
Restart ==
  /\ pc = "idle"
  /\ _cache' = None
  /\ last' = NoCall
  /\ okExec' = Empty
  /\ firstRet' = Empty
  /\ UNCHANGED << disk, arg, index, pc, stack, results, returned, expanded, pruned,
                  nCalls, nExec, widest, served, service, prov >>

Next == Enter \/ Collect \/ Expand \/ Leave \/ Resume \/ set_cache

Spec == Init /\ [][Next]_vars

\* seeds of the behaviours termination is checked on: every slot unbound, two
\* slots unbound, an empty string among unbound slots, no slot unbound, and a
\* scope prefix SCOPE_TAGS does not know
FairSeeds ==
  { CentralPageHashAddress(<<"mc16", "13TeV">>, [n \in Slots |-> None]),
    CentralPageHashAddress(<<"mc16", "13TeV">>, [n \in Slots |-> IF n \in {0, 2} THEN "Top" ELSE None]),
    CentralPageHashAddress(<<"mc16", "13TeV">>, [n \in Slots |-> IF n = 1 THEN "" ELSE None]),
    CentralPageHashAddress(<<"mc16", "13TeV">>, [n \in Slots |-> "Top"]),
    CentralPageHashAddress(<<"mc21", "13p6TeV">>, [n \in Slots |-> IF n < 2 THEN "Top" ELSE None]) }

FairInit == Init /\ arg \in FairSeeds

\* the interpreter keeps running the loop of find_hashtag_tuples
FairSpec == FairInit /\ [][Next]_vars /\ WF_vars(Collect \/ Expand \/ Leave)

\* the seed of the design's worked example
ScenarioSeed ==
  CentralPageHashAddress(<<"mc16", "13TeV">>, [n \in Slots |-> IF n = 0 THEN "Top" ELSE None])

ScenarioInit ==
  /\ Start
  /\ arg = ScenarioSeed
  /\ index = 0
  /\ service = "literal"

\* the worked example: the search against the literal catalogue
ScenarioSpec == ScenarioInit /\ [][Next]_vars

\* the addresses and indexes the adapter is called with directly: no slot bound,
\* bound slots among unbound ones with an empty string, a name with a double
\* quote, every slot bound, and a scope prefix SCOPE_TAGS does not know; the
\* indexes of the four slots and one past them
AdapterSeeds ==
  { CentralPageHashAddress(<<"mc16", "13TeV">>, [n \in Slots |-> None]),
    CentralPageHashAddress(<<"mc16", "13TeV">>,
                           (0 :> "Top") @@ (1 :> None) @@ (2 :> "") @@ (3 :> None)),
    CentralPageHashAddress(<<"mc23", "13p6TeV">>,
                           (0 :> QuotedName) @@ (1 :> "Top") @@ (2 :> None) @@ (3 :> None)),
    CentralPageHashAddress(<<"mc16", "13TeV">>, [n \in Slots |-> "Top"]),
    CentralPageHashAddress(<<"mc21", "13p6TeV">>,
                           [n \in Slots |-> IF n = 0 THEN "Top" ELSE None]) }

Indexes == 0..4

AdapterInit ==
  /\ Start
  /\ arg \in AdapterSeeds
  /\ index \in Indexes
  /\ service = "loose"

\* a caller other than the search calls find_missing_tag(arg, index) and gets
\* its list or its exception
Ask ==
  /\ pc = "idle"
  /\ \E r \in { find_missing_tag(arg, index, reply) : reply \in RepliesFor(arg, index) } :
       /\ Recorded(r.call)
       /\ _cache' = r.cache
       /\ disk' = r.disk
       /\ nCalls' = nCalls + 1
       /\ nExec' = nExec + r.call.executed
       /\ pc' = "asked"
       /\ returned' = IF r.call.raised # ""
                      THEN [ok |-> FALSE, value |-> <<>>, raised |-> r.call.raised]
                      ELSE [ok |-> TRUE, value |-> r.call.returned, raised |-> ""]
  /\ UNCHANGED << arg, index, stack, results, expanded, pruned, widest, service, prov >>

\* the scopes find_hashtag is called with: one whose prefix SCOPE_TAGS knows and
\* one whose prefix it does not know
HashtagScopes == { sc \in ScopeEnum : sc[1] \in {"mc16", "mc21"} }

\* a caller calls find_hashtag(scope, search_string) and gets its list or its
\* exception
AskHashtag ==
  /\ pc = "idle"
  /\ \E scope \in HashtagScopes, search_string \in SearchStrings :
       \E r \in { find_hashtag(scope, search_string, reply) :
                     reply \in RepliesForHashtag(scope, search_string) } :
         /\ Recorded(r.call)
         /\ _cache' = r.cache
         /\ disk' = r.disk
         /\ nCalls' = nCalls + 1
         /\ nExec' = nExec + r.call.executed
         /\ pc' = "asked"
         /\ returned' = IF r.call.raised # ""
                        THEN [ok |-> FALSE, value |-> <<>>, raised |-> r.call.raised]
                        ELSE [ok |-> TRUE, value |-> r.call.returned, raised |-> ""]
  /\ UNCHANGED << arg, index, stack, results, expanded, pruned, widest, service, prov >>

\* a caller calls get_metadata(scope, name) and gets its dictionary or its
\* exception
AskMetadata ==
  /\ pc = "idle"
  /\ \E scope \in HashtagScopes, name \in DatasetNames :
       \E r \in { get_metadata(scope, name, reply) :
                     reply \in RepliesForMetadata(scope, name) } :
         /\ Recorded(r.call)
         /\ _cache' = r.cache
         /\ disk' = r.disk
         /\ nCalls' = nCalls + 1
         /\ nExec' = nExec + r.call.executed
         /\ pc' = "asked"
         /\ returned' = IF r.call.raised # ""
                        THEN [ok |-> FALSE, value |-> <<>>, raised |-> r.call.raised]
                        ELSE [ok |-> TRUE, value |-> r.call.returned, raised |-> ""]
  /\ UNCHANGED << arg, index, stack, results, expanded, pruned, widest, service, prov >>

\* ami.py 428-437: a caller calls get_provenance(scope, ds_name); the command is
\* executed and the loop is entered with backone = ds_name, or the exception of
\* execute_ami_command leaves the function
AskProvenance ==
  /\ pc = "idle"
  /\ \E scope \in HashtagScopes :
       \E reply \in RepliesForProvenance(ProvDataset) :
         LET cmd == get_provenance_cmd(ProvDataset)
             x == execute_ami_command(cmd, reply)
             call == [NoCall EXCEPT !.op = "get_provenance",
                        !.s_addr = CentralPageHashAddress(scope, [n \in Slots |-> None]),
                        !.search_string = ProvDataset,
                        !.cmd = cmd, !.dir = x.cache, !.hit = x.hit,
                        !.executed = x.executed, !.rows = x.result, !.raised = x.raised,
                        !.remote = IF x.executed = 1 THEN reply.kind ELSE ""]
         IN  /\ Recorded(call)
             /\ _cache' = x.cache
             /\ disk' = x.disk
             /\ nCalls' = nCalls + 1
             /\ nExec' = nExec + x.executed
             /\ IF x.raised # ""
                THEN /\ pc' = "asked"
                     /\ returned' = [ok |-> FALSE, value |-> <<>>, raised |-> x.raised]
                     /\ prov' = NoProv
                ELSE /\ pc' = "chain"
                     /\ returned' = NoReturn
                     /\ prov' = [edges |-> x.result, backone |-> ProvDataset,
                                 result_names |-> <<>>, parity |-> 0]
  /\ UNCHANGED << arg, index, stack, results, expanded, pruned, widest, service >>

\* ami.py 438-445: one iteration of the loop of get_provenance: the parent of
\* backone is looked up; without one result_names is returned, otherwise the
\* parent is appended and becomes backone
Follow ==
  /\ pc = "chain"
  /\ LET backone == find_backone(prov.edges, prov.backone, 1)
     IN  IF backone = None
         THEN /\ pc' = "asked"
              /\ returned' = [ok |-> TRUE, value |-> prov.result_names, raised |-> ""]
              /\ prov' = NoProv
         ELSE /\ prov' = [prov EXCEPT !.backone = backone,
                                      !.result_names = IF Len(@) < MaxChain
                                                       THEN Append(@, backone) ELSE @,
                                      !.parity = (@ + 1) % 2]
              /\ UNCHANGED << pc, returned >>
  /\ UNCHANGED << _cache, disk, arg, index, stack, results, last, expanded, pruned,
                  nCalls, nExec, widest, okExec, firstRet, served, service >>

AdapterNext == Ask \/ AskHashtag \/ Resume

\* the adapter called directly, with every address of AdapterSeeds and every index
AdapterSpec == AdapterInit /\ [][AdapterNext]_vars

\* seeds of the searches against a loose service: two slots and one slot unbound
LooseSeeds ==
  { CentralPageHashAddress(<<"mc16", "13TeV">>, [n \in Slots |-> IF n < 2 THEN "Top" ELSE None]),
    CentralPageHashAddress(<<"mc23", "13p6TeV">>, [n \in Slots |-> IF n < 3 THEN "Top" ELSE None]) }

LooseInit ==
  /\ Start
  /\ arg \in LooseSeeds
  /\ index = 0
  /\ service = "loose"

LooseNext == Enter \/ Collect \/ Expand \/ Leave \/ Resume \/ AskHashtag

\* the search and find_hashtag against a service whose rows may lack a field
LooseSpec == LooseInit /\ [][LooseNext]_vars

\* the seeds of the behaviours with two stores, from the worked example: its
\* seed and an address with one slot unbound
CacheSeeds ==
  { ScenarioSeed,
    CentralPageHashAddress(<<"mc16", "13TeV">>,
                           (0 :> "Top") @@ (1 :> "TTbar") @@ (2 :> "Wt") @@ (3 :> None)) }

CacheInit ==
  /\ Start
  /\ arg \in CacheSeeds
  /\ index \in {1, 3}
  /\ service = "literal"

CacheNext == Ask \/ AskHashtag \/ Resume \/ set_cache \/ Rebind \/ Restart

\* calls of find_missing_tag and find_hashtag with the handle dropped and
\* rebound and the process restarted in between
CacheSpec == CacheInit /\ [][CacheNext]_vars

\* the caller turns to the same tags in another scope the command line accepts
Rescope ==
  /\ pc = "idle"
  /\ \E scope \in ScopeEnum :
       /\ scope # arg.scope
       /\ arg' = CentralPageHashAddress(scope, arg.hash_tags)
  /\ UNCHANGED << _cache, disk, index, pc, stack, results, returned, last, expanded, pruned,
                  nCalls, nExec, widest, okExec, firstRet, served, service, prov >>

\* the addresses whose commands are compared: bound slots, one of them with an
\* empty string, among unbound ones, and no slot bound
KeySeeds ==
  { CentralPageHashAddress(<<"mc16", "13TeV">>,
                           (0 :> "Top") @@ (1 :> None) @@ (2 :> "") @@ (3 :> "TTbar")),
    CentralPageHashAddress(<<"mc16", "13TeV">>, [n \in Slots |-> None]) }

KeyInit ==
  /\ Start
  /\ arg \in KeySeeds
  /\ index \in {0, 1}
  /\ service = "any"

KeyNext == Ask \/ Resume \/ Rescope

\* find_missing_tag called with the same tags and index in one scope after another
KeySpec == KeyInit /\ [][KeyNext]_vars

\* a caller calls find_dids_with_name(scope, name, require_pmg) and gets its
\* list or its exception; the rows of these replies are not counted in served,
\* the budget of the other queries
AskDids ==
  /\ pc = "idle"
  /\ \E scope \in HashtagScopes, name \in SearchNames, require_pmg \in BOOLEAN :
       \E r \in { find_dids_with_name(scope, name, require_pmg, reply) :
                     reply \in RepliesForDids(scope, name, require_pmg) } :
         /\ last' = [r.call EXCEPT !.again = /\ FailedRemotely(last)
                                             /\ last.cmd = r.call.cmd
                                             /\ last.dir = r.call.dir]
         /\ okExec' = IF r.call.remote = "DOMObject"
                      THEN Bump(okExec, << r.call.dir, r.call.cmd >>) ELSE okExec
         /\ _cache' = r.cache
         /\ disk' = r.disk
         /\ nCalls' = nCalls + 1
         /\ nExec' = nExec + r.call.executed
         /\ pc' = "asked"
         /\ returned' = IF r.call.raised # ""
                        THEN [ok |-> FALSE, value |-> <<>>, raised |-> r.call.raised]
                        ELSE [ok |-> TRUE, value |-> r.call.returned, raised |-> ""]
  /\ UNCHANGED << arg, index, stack, results, expanded, pruned, widest, firstRet, served,
                  service, prov >>

DidsNext == AskDids \/ Resume

\* find_dids_with_name called for two names, with and without require_pmg
DidsSpec == ScenarioInit /\ [][DidsNext]_vars

ProvNext == AskProvenance \/ Follow \/ Resume

\* get_provenance; the interpreter keeps running its loop
ProvSpec == ScenarioInit /\ [][ProvNext]_vars /\ WF_vars(Follow)

MetadataNext == AskMetadata \/ Resume \/ Rebind

\* get_metadata called for two dataset names, with two stores
MetadataSpec == ScenarioInit /\ [][MetadataNext]_vars

SeedInit ==
  /\ Start
  /\ arg = ScenarioSeed
  /\ index = 0
  /\ service = "seeds"

SeedNext == AskHashtag \/ Resume \/ Rebind

\* find_hashtag against a service that holds hashtags of every dimension, with
\* two stores
SeedSpec == SeedInit /\ [][SeedNext]_vars

(***************************************************************************)
(* The design's vocabulary.  A slot is unbound when it holds the marker    *)
(* None; every string, the empty one too, is a bound value.                *)
(***************************************************************************)
Unbound(addr) == { i \in Slots : addr.hash_tags[i] = None }

Range(q) == { q[j] : j \in 1..Len(q) }

running == pc \in {"loop", "done", "error"}

\* the step is a find_missing_tag call of the search
Called == nCalls' = nCalls + 1

(***************************************************************************)
(* C1                                                                      *)
(***************************************************************************)
\* C1: for a seed with no unbound slot, find_hashtag_tuples returns the list
\* holding just that seed, and makes no find_missing_tag call and no remote
\* execution.
C1_CompleteSeedShortCircuit ==
  (running /\ Unbound(arg) = {}) =>
     /\ nCalls = 0
     /\ nExec = 0
     /\ pc # "error"
     /\ (pc = "done" => returned = [ok |-> TRUE, value |-> << arg >>, raised |-> ""])

(***************************************************************************)
(* C2                                                                      *)
(***************************************************************************)
\* what find_missing_tag returns for the leftmost unbound slot of addr, read
\* off the store the search has filled
Answered(addr) ==
  /\ scope_short(addr.scope) \in DOMAIN SCOPE_TAGS
  /\ find_missing_tag_cmd(addr, first_of(Unbound(addr))) \in DOMAIN disk[get_cache]

Candidates(addr) ==
  rows_to_addrs(addr,
                disk[get_cache][find_missing_tag_cmd(addr, first_of(Unbound(addr)))],
                1).list

\* every query the leftmost-first completion of addr needs has been answered
RECURSIVE Known(_)
Known(addr) ==
  \/ Unbound(addr) = {}
  \/ /\ Answered(addr)
     /\ \A c \in Range(Candidates(addr)) : Known(c)

\* the complete addresses obtainable from addr by binding the leftmost unbound
\* slot to a candidate, again and again
RECURSIVE Completions(_)
Completions(addr) ==
  IF Unbound(addr) = {} THEN {addr}
  ELSE IF ~Answered(addr) THEN {}
  ELSE UNION { Completions(c) : c \in Range(Candidates(addr)) }

\* C2: the result of find_hashtag_tuples holds only addresses with no unbound
\* slot, and as a set it is the set of the complete addresses obtainable from the
\* seed by binding the leftmost unbound slot to a candidate of find_missing_tag.
C2_ResultIsReachableSet ==
  pc = "done" =>
     /\ \A r \in Range(returned.value) : Unbound(r) = {}
     /\ (Known(arg) => Range(returned.value) = Completions(arg))

(***************************************************************************)
(* C3                                                                      *)
(***************************************************************************)
\* the iterations an address with k unbound slots can cost at most
RECURSIVE Weight(_)
Weight(k) == IF k = 0 THEN 1 ELSE 1 + MaxRows * Weight(k - 1)

RECURSIVE StackWeight(_, _)
StackWeight(stk, n) ==
  IF n = 0 THEN 0
  ELSE Weight(Cardinality(Unbound(stk[n]))) + StackWeight(stk, n - 1)

Measure == (IF pc = "loop" THEN 1 ELSE 0) + StackWeight(stack, Len(stack))

C4_MonotonicSlotReduction ==
  [][(Called /\ pc' = "loop") =>
       \A j \in Len(stack)..Len(stack') :
          Cardinality(Unbound(stack'[j])) = Cardinality(Unbound(top(stack))) - 1]_vars

\* an expansion pushed two addresses, and one pushed a row that named another
\* slot than the one asked for
C4_Witness ==
  /\ pc = "loop"
  /\ Len(expanded.pushed) = 1
  /\ expanded.pushed[1].hash_tags[expanded.index] = None
  /\ Len(stack) >= 2
  /\ top(stack) = expanded.pushed[1]
  /\ widest = 2

(***************************************************************************)
(* C5                                                                      *)
(***************************************************************************)
\* r binds every slot p binds, to the same value
Extends(r, p) ==
  /\ r.scope = p.scope
  /\ \A i \in Slots : p.hash_tags[i] # None => r.hash_tags[i] = p.hash_tags[i]

\* C5: an address whose find_missing_tag query came back empty is dropped
\* without an error: neither it nor an address extending it is in the result,
\* and when the query of the seed itself came back empty the result is the
\* empty list after exactly one find_missing_tag call.
C5_Pruning ==
  /\ pc = "error" => (last.raised # "" /\ returned.raised = last.raised)
  /\ running => \A p \in pruned : \A r \in Range(results) : ~Extends(r, p)
  /\ pc = "done" =>
       /\ returned.value = results
       /\ arg \in pruned => (returned.value = <<>> /\ nCalls = 1)

\* a search that dropped one branch and completed another
C5_Witness ==
  /\ pc = "done"
  /\ pruned # {}
  /\ arg \notin pruned
  /\ returned.value # <<>>

(***************************************************************************)
(* C6                                                                      *)
(***************************************************************************)
\* C6: when a find_missing_tag call of the search raises, find_hashtag_tuples
\* is left at once with that exception: the caller gets no list, and the search
\* makes no further call and touches neither the store nor the service.
C6_ErrorAborts ==
  [][/\ (Called /\ last'.raised # "") =>
          /\ pc' = "error"
          /\ returned' = [ok |-> FALSE, value |-> <<>>, raised |-> last'.raised]
     /\ pc = "error" =>
          /\ pc' = "idle"
          /\ UNCHANGED << last, disk, served, okExec >>]_vars

\* a call raised after the search had collected an address
C6_Witness ==
  /\ pc = "error"
  /\ results # <<>>
  /\ nCalls >= 2
  /\ ~returned.ok

(***************************************************************************)
(* C7                                                                      *)
(***************************************************************************)
\* the step is a find_missing_tag call that reached execute_ami_command
Executed == Called /\ last'.cmd # NoCmd

WasKey == last'.cmd \in DOMAIN disk[last'.dir]

HitStep ==
  /\ last'.hit
  /\ last'.executed = 0
  /\ last'.rows = disk[last'.dir][last'.cmd]
  /\ disk' = disk

StoredStep ==
  /\ last'.remote = "DOMObject"
  /\ DOMAIN disk'[last'.dir] = DOMAIN disk[last'.dir] \cup {last'.cmd}
  /\ disk'[last'.dir][last'.cmd] = last'.rows
  /\ \A k \in DOMAIN disk[last'.dir] : disk'[last'.dir][k] = disk[last'.dir][k]

\* C7, as stated: over any sequence of calls the remote service is executed at
\* most once per command text; a call whose command is a key returns the stored
\* value without a remote execution and leaves the cache as it is; a miss makes
\* one remote execution, stores its result under that command text alone and
\* returns it.
C7_AtMostOnceAsStated ==
  [][Executed =>
       /\ WasKey => HitStep
       /\ ~WasKey => (last'.executed = 1 /\ StoredStep)
       /\ ~(last.executed = 1 /\ last'.executed = 1
            /\ last'.cmd = last.cmd /\ last'.dir = last.dir)]_vars

\* C7: over any sequence of calls at most one remote execution per command text
\* returns a result; a call whose command is a key returns the stored value
\* without a remote execution and leaves the cache as it is; a miss makes one
\* remote execution and, when that returns a DOMObject, stores its result under
\* that command text alone and returns it, and otherwise leaves the cache as it
\* is.
C7_AtMostOnce ==
  /\ [](\A k \in DOMAIN okExec : okExec[k] = 1)
  /\ [][Executed =>
          /\ WasKey => HitStep
          /\ ~WasKey =>
               /\ last'.executed = 1
               /\ IF FailedRemotely(last') THEN disk' = disk
                  ELSE StoredStep]_vars

\* a command was answered from the store after an earlier call had stored it
C7_Witness ==
  /\ last.hit
  /\ last.executed = 0
  /\ Len(last.rows) >= 1
  /\ okExec[<< last.dir, last.cmd >>] = 1

(***************************************************************************)
(* C8                                                                      *)
(***************************************************************************)
\* C8: when the remote execution of a miss raises or returns something that is
\* no DOMObject, the exception reaches the caller, the cache is unchanged with
\* the command still no key, and the next call with the same command executes
\* remotely again.
C8_MissOnFailure ==
  [][Executed =>
       /\ FailedRemotely(last') =>
            /\ last'.raised \in RemoteFailures
            /\ pc' = "error"
            /\ returned' = [ok |-> FALSE, value |-> <<>>, raised |-> last'.raised]
            /\ disk' = disk
            /\ last'.cmd \notin DOMAIN disk'[last'.dir]
       /\ last'.again => last'.executed = 1]_vars

\* a command whose remote execution had failed was executed again, with a result
C8_Witness ==
  /\ last.again
  /\ last.executed = 1
  /\ last.raised = ""
  /\ Len(last.rows) >= 1

(***************************************************************************)
(* C9                                                                      *)
(***************************************************************************)
Arguments(call) == << call.dir, call.s_addr, call.missing_index >>

\* C9: of two find_missing_tag calls with equal arguments against one store,
\* the first of which went to the remote service and returned a list, the second
\* returns an equal list without a remote execution, so that exactly one remote
\* execution answered them.
C9_AdapterIdempotent ==
  /\ [](\A a \in DOMAIN firstRet :
          okExec[<< a[1], find_missing_tag_cmd(a[2], a[3]) >>] = 1)
  /\ [][(Called /\ Arguments(last') \in DOMAIN firstRet) =>
          /\ last'.raised = ""
          /\ last'.executed = 0
          /\ last'.returned = firstRet[Arguments(last')]]_vars

\* a second call with the arguments of an earlier one returned its list
C9_Witness ==
  /\ last.hit
  /\ last.raised = ""
  /\ Len(last.returned) = 2
  /\ Arguments(last) \in DOMAIN firstRet
  /\ firstRet[Arguments(last)] = last.returned

(***************************************************************************)
(* C10                                                                     *)
(***************************************************************************)
RECURSIVE Power(_, _)
Power(b, n) == IF n = 0 THEN 1 ELSE b * Power(b, n - 1)

\* (B^(k+1) - 1) / (B - 1), and k + 1 where B = 1 makes that 0 / 0
CallBound(B, k) ==
  IF B = 1 THEN k + 1
  ELSE IF B = 0 THEN 1
  ELSE (Power(B, k + 1) - 1) \div (B - 1)

\* C10: a search from a seed with k unbound slots whose find_missing_tag calls
\* returned at most B candidates each has made at most (B^(k+1) - 1) / (B - 1)
\* find_missing_tag calls.
C10_CallBound ==
  running => nCalls <= CallBound(widest, Cardinality(Unbound(arg)))

\* a search from two unbound slots that branched in two and queried both
C10_Witness ==
  /\ pc = "done"
  /\ Cardinality(Unbound(arg)) = 2
  /\ widest = 2
  /\ nCalls = 3

(***************************************************************************)
(* C11                                                                     *)
(***************************************************************************)
Complete(a, b, c, d) ==
  CentralPageHashAddress(<<"mc16", "13TeV">>, (0 :> a) @@ (1 :> b) @@ (2 :> c) @@ (3 :> d))

\* C11: with scope mc16_13TeV, seed [Top, None, None, None] and the catalogue
\* of the worked example, find_hashtag_tuples returns exactly the two addresses
\* [Top, TTbar, Baseline, PowhegPythia] and [Top, TTbar, Wt, PowhegPythia],
\* after exactly 4 find_missing_tag calls.
C11_LiteralScenario ==
  pc = "done" =>
     /\ Len(returned.value) = 2
     /\ Range(returned.value) =
          { Complete("Top", "TTbar", "Baseline", "PowhegPythia"),
            Complete("Top", "TTbar", "Wt", "PowhegPythia") }
     /\ nCalls = 4

\* the search of the worked example returned, every query answered remotely
C11_Witness ==
  /\ service = "literal"
  /\ arg = ScenarioSeed
  /\ pc = "done"
  /\ nExec = 4
  /\ Len(returned.value) = 2

(***************************************************************************)
(* C12                                                                     *)
(***************************************************************************)
\* C12: every find_missing_tag call of find_hashtag_tuples targets the lowest
\* index whose slot is unbound in the address being expanded, which is the
\* address on top of the worklist.
C12_LeftmostFirst ==
  [][Called =>
       /\ last'.s_addr = top(stack)
       /\ Unbound(last'.s_addr) # {}
       /\ last'.missing_index = first_of(Unbound(last'.s_addr))]_vars

(***************************************************************************)
(* C13                                                                     *)
(***************************************************************************)
\* the slots of addr that hold a value
Bound(addr) == Slots \ Unbound(addr)

\* cmd asks for the rows of dimension PMGL(i+1) and carries, in its conjunction
\* of membership constraints, exactly one for each bound slot j of addr, with
\* alias h(j+1), scope PMGL(j+1) and the name Name(j), and no other
CommandShape(cmd, addr, i, Name(_)) ==
  /\ cmd.entity = "DATASET"
  /\ cmd.SCOPE = PMGL(i + 1)
  /\ Len(cmd.isin) = Cardinality(Bound(addr))
  /\ \A j \in Bound(addr) :
       Cardinality({ k \in 1..Len(cmd.isin) :
                       cmd.isin[k] = [alias |-> j + 1, SCOPE |-> PMGL(j + 1), NAME |-> Name(j)] }) = 1
  /\ \A k \in 1..Len(cmd.isin) :
       /\ cmd.isin[k].alias - 1 \in Bound(addr)
       /\ cmd.isin[k].alias # i + 1

\* the call built a command for an unbound target slot
BuiltForUnbound(call) ==
  /\ call.op = "find_missing_tag"
  /\ call.cmd # NoCmd
  /\ call.missing_index \in Unbound(call.s_addr)

\* C13: for every address and every unbound target slot i, the command built by
\* find_missing_tag restricts the rows to dimension PMGL(i+1) and carries
\* exactly one AND-ed membership constraint (alias h(j+1), scope PMGL(j+1), name
\* equal to the slot value) for each bound slot j, and none for an unbound slot.
C13_CommandShape ==
  BuiltForUnbound(last) =>
    LET SlotValue(j) == last.s_addr.hash_tags[j]
    IN  CommandShape(last.cmd, last.s_addr, last.missing_index, SlotValue)

\* the same with the name of each constraint being the slot value as ami.py 183
\* renders it, every double quote a backtick
C13_CommandShapeRendered ==
  BuiltForUnbound(last) =>
    LET Rendered(j) == backticked(last.s_addr.hash_tags[j])
    IN  CommandShape(last.cmd, last.s_addr, last.missing_index, Rendered)

\* a command with two constraints, one of them for an empty string
C13_Witness ==
  /\ BuiltForUnbound(last)
  /\ last.missing_index = 3
  /\ Len(last.cmd.isin) = 2
  /\ last.cmd.isin[2].NAME = ""

(***************************************************************************)
(* C14                                                                     *)
(***************************************************************************)
\* the call got a row set, from the store or from the remote service
GotRows(call) ==
  /\ call.op = "find_missing_tag"
  /\ call.cmd # NoCmd
  /\ ~FailedRemotely(call)

\* partial.withSlotBound(slotIndex, rowValue)
withSlotBound(partial, slotIndex, rowValue) ==
  CentralPageHashAddress(partial.scope, [partial.hash_tags EXCEPT ![slotIndex] = rowValue])

\* the list of the call has one address per row, in row order, each the
\* argument with the slot at the index of the call bound to the row's value
OnePerRow(call) ==
  /\ Len(call.returned) = Len(call.rows)
  /\ \A k \in 1..Len(call.rows) :
       call.returned[k] = withSlotBound(call.s_addr, call.missing_index, call.rows[k].HASHTAGS_NAME)

\* C14: find_missing_tag(partial, slotIndex) returns one address per row of the
\* service, in row order, and the empty list with no error for zero rows; each
\* address has the scope and the bound slots of partial and the slot at
\* slotIndex bound to the row's value; partial is not modified.
C14_OneAddressPerRow ==
  GotRows(last) =>
    /\ last.rows = <<>> => (last.raised = "" /\ last.returned = <<>>)
    /\ last.raised = "" => OnePerRow(last)
    /\ last.s_addr = arg

\* every row of the call has both fields and carries the dimension the command
\* asked for
RowsAsAsked(call) ==
  \A k \in 1..Len(call.rows) :
     /\ DOMAIN call.rows[k] = {"HASHTAGS_SCOPE", "HASHTAGS_NAME"}
     /\ call.rows[k].HASHTAGS_SCOPE = call.cmd.SCOPE

\* the same for the calls whose rows all carry the dimension asked for
C14_OneAddressPerAskedRow ==
  (GotRows(last) /\ RowsAsAsked(last)) =>
    /\ last.rows = <<>> => (last.raised = "" /\ last.returned = <<>>)
    /\ last.raised = "" => OnePerRow(last)
    /\ last.s_addr = arg

\* a call returned two addresses for two rows of the dimension asked for
C14_Witness ==
  /\ GotRows(last)
  /\ RowsAsAsked(last)
  /\ last.raised = ""
  /\ Len(last.returned) = 2
  /\ last.returned[1] # last.returned[2]

(***************************************************************************)
(* C15                                                                     *)
(***************************************************************************)
\* the scope of the call has a prefix that is no key of SCOPE_TAGS
UnknownScope(call) ==
  /\ call.op \in {"find_missing_tag", "find_hashtag"}
  /\ scope_short(call.s_addr.scope) \notin DOMAIN SCOPE_TAGS

\* C15: when the prefix of the scope is no key of SCOPE_TAGS, find_missing_tag
\* and find_hashtag raise the KeyError of the lookup to their caller at once: no
\* command is built, nothing is executed remotely, and the cache handle and the
\* stores are left as they were.
C15_UnknownScope ==
  [][(Called /\ UnknownScope(last')) =>
       /\ last'.raised = "KeyError"
       /\ returned' = [ok |-> FALSE, value |-> <<>>, raised |-> "KeyError"]
       /\ last'.cmd = NoCmd
       /\ ~last'.hit
       /\ last'.executed = 0
       /\ last'.remote = ""
       /\ UNCHANGED << _cache, disk, nExec, served, okExec >>]_vars

\* find_hashtag raised for an unknown prefix while the store held an entry
C15_Witness ==
  /\ last.op = "find_hashtag"
  /\ UnknownScope(last)
  /\ last.raised = "KeyError"
  /\ pc = "asked"
  /\ _cache # None
  /\ disk[_cache] # Empty

(***************************************************************************)
(* C16                                                                     *)
(***************************************************************************)
\* the fields the rows of the call are read by
Fields(call) ==
  IF call.op = "find_hashtag" THEN {"SCOPE", "NAME"} ELSE {"HASHTAGS_SCOPE", "HASHTAGS_NAME"}

\* row k of the call lacks a field
Lacks(call, k) == ~(Fields(call) \subseteq DOMAIN call.rows[k])

\* the call got a row set with a row that lacks a field
Lacking(call) ==
  /\ call.op \in {"find_missing_tag", "find_hashtag"}
  /\ \E k \in 1..Len(call.rows) : Lacks(call, k)

\* C16: when a row of the response lacks a field the call reads, the call
\* raises to its caller and returns no address, with the KeyError of the row
\* lookup when no earlier row failed; a search it was made for is left with that
\* exception and no result; the command was executed remotely once and is not
\* executed again in the call.
C16_MalformedResponse ==
  [][(Called /\ Lacking(last')) =>
       /\ last'.raised # ""
       /\ Lacks(last', 1) => last'.raised = "KeyError"
       /\ last'.returned = <<>>
       /\ returned' = [ok |-> FALSE, value |-> <<>>, raised |-> last'.raised]
       /\ pc = "loop" => pc' = "error"
       /\ nExec' <= nExec + 1
       /\ okExec'[<< last'.dir, last'.cmd >>] = 1]_vars

\* a search was left at its second call with the KeyError of a row that came
\* after a well-formed one
C16_Witness ==
  /\ pc = "error"
  /\ Lacking(last)
  /\ Len(last.rows) = 2
  /\ last.raised = "KeyError"
  /\ returned.raised = "KeyError"
  /\ nCalls = 2

(***************************************************************************)
(* C17                                                                     *)
(***************************************************************************)
\* the index of the call names no slot, or a slot that is already bound
NoFreeSlot(call) ==
  /\ call.op = "find_missing_tag"
  /\ \/ call.missing_index \notin Slots
     \/ call.s_addr.hash_tags[call.missing_index] # None

\* no address of the list differs from the argument in a slot the argument binds
KeepsBound(call) ==
  \A k \in 1..Len(call.returned) :
     \A j \in Bound(call.s_addr) :
        call.returned[k].hash_tags[j] = call.s_addr.hash_tags[j]

\* C17: find_missing_tag(addr, i) returns no address when slot i of addr is
\* already bound or i is outside 0..3: with rows to bind the call fails; and no
\* address it returns has another value in a slot that addr binds.
C17_InvalidIndex ==
  /\ NoFreeSlot(last) =>
       /\ last.returned = <<>>
       /\ (GotRows(last) /\ last.rows # <<>>) => last.raised # ""
  /\ last.op = "find_missing_tag" => KeepsBound(last)

\* the same for the calls whose rows all carry the dimension asked for
C17_InvalidIndexAskedRows ==
  /\ (NoFreeSlot(last) /\ RowsAsAsked(last)) =>
       /\ last.returned = <<>>
       /\ (GotRows(last) /\ last.rows # <<>>) =>
             last.raised = (IF last.missing_index \in Slots THEN "InvalidIndex" ELSE "ValueError")
  /\ last.op = "find_missing_tag" => KeepsBound(last)

\* a call for a bound slot got a row of the dimension asked for and failed
C17_Witness ==
  /\ NoFreeSlot(last)
  /\ RowsAsAsked(last)
  /\ last.missing_index \in Slots
  /\ Len(last.rows) = 1
  /\ last.raised = "InvalidIndex"

(***************************************************************************)
(* C18                                                                     *)
(***************************************************************************)
\* the step is a call that reached get_cache
Fetched == Called /\ last'.cmd # NoCmd

\* the step changes nothing but the handle, as set_cache does
OnlyHandle ==
  UNCHANGED << disk, arg, index, pc, stack, results, returned, last, expanded, pruned,
               nCalls, nExec, widest, okExec, firstRet, served, service, prov >>

\* C18: get_cache opens the default store only in a call made while no handle is
\* set, and then keeps it; a call made while a handle is set, by an earlier
\* get_cache or by set_cache, uses that handle and opens nothing; after
\* set_cache(None) the next call opens the default store again; and a step that
\* changes the handle in any other way is a set_cache, or the end of the process.
C18_HandleLifecycle ==
  [][/\ Fetched =>
          /\ _cache = None => (_cache' = HomeDir /\ last'.dir = HomeDir)
          /\ _cache # None => (_cache' = _cache /\ last'.dir = _cache)
     /\ (Called /\ ~Fetched) => _cache' = _cache
     /\ _cache' # _cache =>
          \/ Fetched /\ _cache = None
          \/ ~Called /\ OnlyHandle
          \/ ~Called /\ Restart]_vars

\* the default store was opened again after a store set by the caller had been
\* used and dropped
C18_Witness ==
  /\ _cache = HomeDir
  /\ last.dir = HomeDir
  /\ last.executed = 1
  /\ disk[TmpDir] # Empty
  /\ disk[HomeDir] # Empty

(***************************************************************************)
(* C19                                                                     *)
(***************************************************************************)
\* the step removes no entry of a store and changes none
Kept ==
  \A d \in Dirs : \A k \in DOMAIN disk[d] :
     k \in DOMAIN disk'[d] /\ disk'[d][k] = disk[d][k]

\* C19: no step removes or changes an entry of a store, whatever time passes
\* and whatever happens to the handle; and a call made while no handle is set,
\* as after a restart of the process, whose command is a key of the store in the
\* default directory is answered from that store with the value stored, without
\* a remote execution.
C19_SurvivesRestart ==
  /\ [][Kept]_vars
  /\ [][(Fetched /\ _cache = None /\ last'.cmd \in DOMAIN disk[HomeDir]) =>
          /\ last'.dir = HomeDir
          /\ last'.hit
          /\ last'.executed = 0
          /\ last'.rows = disk[HomeDir][last'.cmd]
          /\ nExec' = nExec
          /\ served' = served]_vars

\* a command this process never executed was answered from the default store,
\* where a process before it had stored rows
C19_Witness ==
  /\ last.hit
  /\ last.executed = 0
  /\ last.dir = HomeDir
  /\ Len(last.rows) >= 1
  /\ << HomeDir, last.cmd >> \notin DOMAIN okExec

(***************************************************************************)
(* C20                                                                     *)
(***************************************************************************)
\* the store a call that starts now works with
BoundStore == IF _cache = None THEN HomeDir ELSE _cache

\* C20: a set_cache between calls changes no entry of any store and nothing a
\* call has returned; and every call reads and writes the one store that was
\* bound when it started: a hit returns what that store holds under the command,
\* a miss stores the rows it returns under the command in that store, and no
\* other key and no other store changes.
C20_RebindFrame ==
  [][/\ (~Called /\ _cache' # _cache) =>
          /\ disk' = disk
          /\ returned' = returned
          /\ results' = results
     /\ Fetched =>
          /\ last'.dir = BoundStore
          /\ \A d \in Dirs \ {BoundStore} : disk'[d] = disk[d]
          /\ DOMAIN disk'[BoundStore] \subseteq DOMAIN disk[BoundStore] \cup {last'.cmd}
          /\ \A k \in DOMAIN disk[BoundStore] :
               k \in DOMAIN disk'[BoundStore] /\ disk'[BoundStore][k] = disk[BoundStore][k]
          /\ last'.hit <=> last'.cmd \in DOMAIN disk[BoundStore]
          /\ last'.hit => last'.rows = disk[BoundStore][last'.cmd]
          /\ last'.remote = "DOMObject" =>
               /\ last'.cmd \in DOMAIN disk'[BoundStore]
               /\ disk'[BoundStore][last'.cmd] = last'.rows]_vars

\* after a rebind a call stored rows in the caller's store, under a command the
\* default store, which holds another, does not know
C20_Witness ==
  /\ last.dir = TmpDir
  /\ last.remote = "DOMObject"
  /\ Len(last.rows) >= 1
  /\ disk[HomeDir] # Empty
  /\ last.cmd \notin DOMAIN disk[HomeDir]

(***************************************************************************)
(* C21                                                                     *)
(***************************************************************************)
\* how often q holds x
RECURSIVE Count(_, _)
Count(q, x) ==
  IF q = <<>> THEN 0
  ELSE (IF Head(q) = x THEN 1 ELSE 0) + Count(Tail(q), x)

\* the list find_missing_tag made of the stored reply to the query of addr
Pushed(addr) ==
  LET i == first_of(missing_index(addr))
  IN  IF /\ scope_short(addr.scope) \in DOMAIN SCOPE_TAGS
         /\ find_missing_tag_cmd(addr, i) \in DOMAIN disk[get_cache]
      THEN rows_to_addrs(addr, disk[get_cache][find_missing_tag_cmd(addr, i)], 1).list
      ELSE <<>>

\* how often the address target is found below addr, and below the addresses
\* of q from the k-th on, when every row of every reply counts, the repeated
\* ones as often as they are repeated
RECURSIVE Multiplicity(_, _), MultiplicityOver(_, _, _)
Multiplicity(addr, target) ==
  IF missing_index(addr) = {} THEN (IF addr = target THEN 1 ELSE 0)
  ELSE MultiplicityOver(Pushed(addr), 1, target)

MultiplicityOver(q, k, target) ==
  IF k > Len(q) THEN 0
  ELSE Multiplicity(q[k], target) + MultiplicityOver(q, k + 1, target)

\* C21: find_hashtag_tuples preserves duplicates: an expansion pushes one
\* address per returned row, a repeated row as often as it is repeated, and an
\* address is appended to the result whether or not the result holds it; so
\* the result holds every address as often as the rows of the replies, counted
\* with their repetitions, lead to it.
C21_DuplicatesPreserved ==
  /\ (pc = "loop" /\ expanded # NoExpansion /\ last.raised = "" /\ last.s_addr = expanded.current) =>
        Len(expanded.pushed) = Len(last.rows)
  /\ pc = "done" =>
        /\ \A k \in 1..Len(results) :
              Count(results, results[k]) = Multiplicity(arg, results[k])
        /\ returned.value = results

\* a search returned the same address twice: the reply to its first query held
\* the same row twice, and the one query below that candidate was answered
\* with a row
C21_Witness ==
  /\ pc = "done"
  /\ nCalls = 3
  /\ nExec = 2
  /\ Len(results) = 2
  /\ results[1] = results[2]

(***************************************************************************)
(* C22                                                                     *)
(***************************************************************************)
\* the address with the scope given, the slot of dimension PMGL<n> bound to
\* value and the other slots unbound
SeedOf(scope, n, value) ==
  CentralPageHashAddress(scope, [k \in Slots |-> IF k = n - 1 THEN value ELSE None])

\* C22: make_central_page_hash_address(scope, "PMGL<n>", value) returns, for n
\* in 1..4, the address of that scope with slot n-1 bound to value and the
\* other slots unbound, and raises ValueError for any other hash scope;
\* find_hashtag returns one such seed per row of the reply, in row order, each
\* with the scope the caller passed, and raises that ValueError when a row
\* has another hash scope.
C22_SeedConstruction ==
  /\ \A scope \in ScopeEnum, n \in 0..5, value \in Names :
        LET made == make_central_page_hash_address(scope, PMGL(n), value)
        IN  IF n \in 1..4
            THEN made.raised = "" /\ made.addr = SeedOf(scope, n, value)
            ELSE made.raised = "ValueError"
  /\ (last.op = "find_hashtag" /\ last.cmd # NoCmd /\ last.raised \notin RemoteFailures) =>
        IF \A k \in 1..Len(last.rows) : last.rows[k].SCOPE[2] \in 1..4
        THEN /\ last.raised = ""
             /\ Len(last.returned) = Len(last.rows)
             /\ \A k \in 1..Len(last.rows) :
                   last.returned[k] = SeedOf(last.s_addr.scope, last.rows[k].SCOPE[2], last.rows[k].NAME)
        ELSE /\ last.raised = "ValueError"
             /\ last.returned = <<>>

\* find_hashtag returned two seeds of different dimensions for a reply of two rows
C22_Witness ==
  /\ pc = "asked"
  /\ last.op = "find_hashtag"
  /\ last.raised = ""
  /\ Len(last.rows) = 2
  /\ last.rows[1].SCOPE = PMGL(4)
  /\ last.rows[2].SCOPE = PMGL(1)
  /\ returned.value = << SeedOf(<<"mc16", "13TeV">>, 4, "Top"), SeedOf(<<"mc16", "13TeV">>, 1, "Top") >>

(***************************************************************************)
(* C23                                                                     *)
(***************************************************************************)
\* the friendly name of a column
Friendly(k) ==
  CASE k = "PHYSICSCOMMENT" -> "Physics Comment"
    [] k = "PHYSICSSHORT" -> "Physics Short Name"
    [] k = "GENERATORNAME" -> "Generator Name"
    [] k = "GENFILTEFF" -> "Filter Efficiency"
    [] k = "CROSSSECTION" -> "Cross Section (nb)"
    [] OTHER -> k

\* C23: when the lookup of get_metadata yields a row set (from the store or
\* from the remote service), no row is the RuntimeError naming the dataset and
\* the scope, more than one row is the AssertionError, and exactly one row is
\* returned as the dictionary holding every field of that row under its
\* friendly name.
C23_ExactlyOne ==
  (last.op = "get_metadata" /\ last.cmd # NoCmd /\ last.remote \in {"", "DOMObject"}) =>
     /\ Len(last.rows) = 0 =>
          /\ last.raised = "RuntimeError"
          /\ last.message = << last.search_string, last.s_addr.scope >>
          /\ last.returned = <<>>
     /\ Len(last.rows) > 1 =>
          /\ last.raised = "AssertionError"
          /\ last.returned = <<>>
     /\ Len(last.rows) = 1 =>
          /\ last.raised = ""
          /\ Len(last.returned) = 1
          /\ DOMAIN last.returned[1] = { Friendly(k) : k \in DOMAIN last.rows[1] }
          /\ \A k \in DOMAIN last.rows[1] : last.returned[1][Friendly(k)] = last.rows[1][k]

\* get_metadata returned the re-keyed row of a dataset found once, a field
\* without a friendly name among its fields
C23_Witness ==
  /\ pc = "asked"
  /\ last.op = "get_metadata"
  /\ Len(last.rows) = 1
  /\ "PROJECT" \in DOMAIN last.rows[1]
  /\ returned.ok
  /\ returned.value[1]["Physics Comment"] = "Wt"

\* get_metadata found no row and raised
C23_WitnessNotFound ==
  /\ pc = "asked"
  /\ last.op = "get_metadata"
  /\ last.remote = "DOMObject"
  /\ last.rows = <<>>
  /\ returned.raised = "RuntimeError"

\* get_metadata found two rows, in the store, and raised
C23_WitnessAmbiguous ==
  /\ pc = "asked"
  /\ last.op = "get_metadata"
  /\ last.hit
  /\ Len(last.rows) = 2
  /\ returned.raised = "AssertionError"

(***************************************************************************)
(* C24                                                                     *)
(***************************************************************************)
\* C24: an iteration of the search that pops an address with no slot holding
\* None appends it to the result and calls nothing, whatever strings its slots
\* hold, the empty one included; an iteration that pops any other address
\* queries its leftmost slot holding None and appends nothing.
C24_EmptyStringIsBound ==
  [][(pc = "loop" /\ stack # <<>>) =>
       IF Unbound(stack[Len(stack)]) = {}
       THEN /\ results' = Append(results, stack[Len(stack)])
            /\ ~Called
       ELSE /\ Called
            /\ last'.missing_index = first_of(Unbound(stack[Len(stack)]))
            /\ results' = results]_vars

(***************************************************************************)
(* C25                                                                     *)
(***************************************************************************)
\* the number of slots of addr the search takes as missing
Depth(addr) == Cardinality(missing_index(addr))

\* C25: every iteration of the search works on the address pushed last among
\* those still on the worklist and leaves the addresses below it where they
\* are: an address with no missing slot is appended to the end of the result,
\* any other address is the one find_missing_tag is called with, and the list
\* the call returns goes on top of the worklist in the order returned, so that
\* the last candidate returned is the next address worked on; nothing below
\* the candidates pushed has fewer missing slots than they have.
C25_LastInFirstOut ==
  [][(pc = "loop" /\ stack # <<>>) =>
       LET current == stack[Len(stack)]
           below == SubSeq(stack, 1, Len(stack) - 1)
       IN  \/ /\ ~Called
              /\ results' = Append(results, current)
              /\ stack' = below
           \/ /\ Called
              /\ last'.s_addr = current
              /\ results' = results
              /\ last'.raised = "" =>
                   /\ stack' = below \o last'.returned
                   /\ last'.returned # <<>> => stack'[Len(stack')] = last'.returned[Len(last'.returned)]
                   /\ \A j \in 1..Len(below), k \in 1..Len(last'.returned) :
                        Depth(below[j]) >= Depth(last'.returned[k])]_vars

\* of two different candidates of one reply the one returned last was expanded
\* and the address found below it is in the result, while the one returned
\* first still waits on the worklist
C25_Witness ==
  /\ pc = "loop"
  /\ nCalls = 2
  /\ Len(results) = 1
  /\ Len(stack) = 1
  /\ missing_index(stack[1]) # {}
  /\ expanded.current # arg
  /\ expanded.current # stack[1]
  /\ Depth(expanded.current) = Depth(stack[1])
  /\ expanded.pushed = << results[1] >>

(***************************************************************************)
(* C26                                                                     *)
(***************************************************************************)
\* addr has the four slots, the scope of the seed and the value of the seed in
\* every slot the seed has bound
AgreesWithSeed(addr) ==
  /\ DOMAIN addr.hash_tags = Slots
  /\ Cardinality(DOMAIN addr.hash_tags) = 4
  /\ addr.scope = arg.scope
  /\ \A i \in Slots : arg.hash_tags[i] # None => addr.hash_tags[i] = arg.hash_tags[i]

\* C26: throughout a run of find_hashtag_tuples every address on the worklist,
\* every address in the result and every address returned has exactly four
\* slots, the scope of the seed, and the seed's value in every slot that was
\* bound in the seed.
C26_WorklistInvariant ==
  running =>
    /\ \A j \in 1..Len(stack) : AgreesWithSeed(stack[j])
    /\ \A j \in 1..Len(results) : AgreesWithSeed(results[j])
    /\ \A j \in 1..Len(returned.value) : AgreesWithSeed(returned.value[j])

\* a seed with bound slots: a completion of it is in the result and an address
\* with one more slot bound than the seed waits on the worklist
C26_Witness ==
  /\ pc = "loop"
  /\ \E i \in Slots : arg.hash_tags[i] = "Top"
  /\ Len(results) = 1
  /\ missing_index(results[1]) = {}
  /\ Len(stack) = 1
  /\ stack[1] # arg
  /\ missing_index(stack[1]) # {}

(***************************************************************************)
(* C27                                                                     *)
(***************************************************************************)
\* SCOPE_TAGS[scope_short].evgen.short
evgen_short(scope) == SCOPE_TAGS[scope_short(scope)]

\* an earlier call that returned, in the store dir, had the slots and the index
\* of call and a scope of the same evgen short name
SameInputs(key, call) ==
  /\ key[1] = call.dir
  /\ key[2].hash_tags = call.s_addr.hash_tags
  /\ key[3] = call.missing_index
  /\ evgen_short(key[2].scope) = evgen_short(call.s_addr.scope)

\* C27: the command find_missing_tag builds is determined by the evgen short
\* name of the scope prefix, the four slot values and the target index: it
\* names the catalogue of that short name and the dimension of the index and
\* carries one constraint per slot that is not None, in increasing slot order;
\* so a call whose slots, index and evgen short name are those of an earlier
\* call that returned (mc16_13TeV and mc20_13TeV both map to mc15) sends the
\* same command, is answered from the store without a remote execution, and
\* returns the same tags.
C27_KeyDeterminism ==
  [][(Called /\ last'.op = "find_missing_tag" /\ last'.cmd # NoCmd) =>
       /\ last'.cmd.catalog = evgen_short(last'.s_addr.scope)
       /\ last'.cmd.SCOPE = PMGL(last'.missing_index + 1)
       /\ { last'.cmd.isin[k].alias - 1 : k \in 1..Len(last'.cmd.isin) }
            = { i \in Slots : last'.s_addr.hash_tags[i] # None }
       /\ \A k \in 1..Len(last'.cmd.isin) :
            /\ last'.cmd.isin[k].SCOPE = PMGL(last'.cmd.isin[k].alias)
            /\ last'.cmd.isin[k].NAME = backticked(last'.s_addr.hash_tags[last'.cmd.isin[k].alias - 1])
            /\ k > 1 => last'.cmd.isin[k - 1].alias < last'.cmd.isin[k].alias
       /\ \A key \in DOMAIN firstRet :
            SameInputs(key, last') =>
              /\ last'.cmd = find_missing_tag_cmd(key[2], key[3])
              /\ last'.hit
              /\ last'.executed = 0
              /\ last'.raised = ""
              /\ Len(last'.returned) = Len(firstRet[key])
              /\ \A k \in 1..Len(firstRet[key]) :
                   last'.returned[k].hash_tags = firstRet[key][k].hash_tags]_vars

\* one remote execution has answered the same slots and index for mc16_13TeV
\* and for mc20_13TeV: the latest call, for one of them, was a hit
C27_Witness ==
  /\ pc = "asked"
  /\ last.hit
  /\ Len(last.rows) = 2
  /\ Len(last.cmd.isin) = 3
  /\ okExec[<< last.dir, last.cmd >>] = 1
  /\ \E a, b \in { key \in DOMAIN firstRet : SameInputs(key, last) } :
       /\ a[2].scope = <<"mc16", "13TeV">>
       /\ b[2].scope = <<"mc20", "13TeV">>

(***************************************************************************)
(* C28                                                                     *)
(***************************************************************************)
\* C28: get_provenance terminates whatever edges the service returned: once
\* its loop is entered it is left, with the chain of ancestors returned.
C28_ProvenanceTerminates == (pc = "chain") ~> (pc = "asked")

\* the ancestors of name along the first edge into each, nearest first, for at
\* most fuel steps
RECURSIVE Ancestors(_, _, _)
Ancestors(edges, name, fuel) ==
  LET parent == find_backone(edges, name, 1)
  IN  IF fuel = 0 \/ parent = None THEN <<>>
      ELSE << parent >> \o Ancestors(edges, parent, fuel - 1)

\* when get_provenance returns, it returns the ancestors of the dataset
\* nearest first, edges off that chain ignored
C28_NearestFirst ==
  (pc = "asked" /\ last.op = "get_provenance" /\ returned.ok) =>
     /\ returned.value = Ancestors(last.rows, ProvDataset, MaxChain)
     /\ Len(returned.value) < MaxChain

(***************************************************************************)
(* C29                                                                     *)
(***************************************************************************)
\* C29: a call of find_hashtag or find_missing_tag with a scope the command
\* line accepts never fails with the KeyError of the SCOPE_TAGS lookup, the
\* prefix of every such scope being a key of SCOPE_TAGS.
C29_AcceptedScopesKnown ==
  (last.op \in {"find_hashtag", "find_missing_tag"} /\ last.s_addr.scope \in ScopeEnum) =>
     /\ scope_short(last.s_addr.scope) \in DOMAIN SCOPE_TAGS
     /\ ~(last.raised = "KeyError" /\ last.cmd = NoCmd)

(***************************************************************************)
(* C30                                                                     *)
(***************************************************************************)
\* C30: the command of find_dids_with_name carries a limit of 100 rows, with
\* require_pmg and without, and a call that got its rows warns exactly when
\* there are 100 of them.
C30_HundredRowCap ==
  (last.op = "find_dids_with_name" /\ last.cmd # NoCmd) =>
     /\ last.cmd.limit = ExpectedLimit
     /\ last.raised = "" => (last.warned <=> Len(last.rows) = ExpectedLimit)

\* the command carries the limit of ami.py 303, and a call that got its rows
\* warns exactly when there are as many as that limit
C30_CapOfTheCode ==
  (last.op = "find_dids_with_name" /\ last.cmd # NoCmd) =>
     /\ last.cmd.limit = results_limit
     /\ last.raised = "" =>
          /\ last.warned <=> Len(last.rows) = results_limit
          /\ Len(last.returned) = Len(last.rows)

====
